---- MODULE Spec2Model ----
(***************************************************************************)
(* A model of trelliscope-py: the Trelliscope orchestrator                 *)
(* (trelliscope/trelliscope.py), the display State classes                 *)
(* (trelliscope/state.py), Views, Metas and Panels.                        *)
(*                                                                         *)
(* Python objects are modelled by their attribute values (records).  A     *)
(* method that mutates an object in place is an operator that returns the  *)
(* object's value after the call.  A method of the orchestrator is an      *)
(* operator that returns an Outcome: the receiver after the call, the      *)
(* object returned (None when the call raised), whether the returned       *)
(* object is the receiver itself, the exception, and the panel columns     *)
(* whose files the call wrote or copied.  copy.deepcopy yields an object   *)
(* with the same attribute values that shares nothing with its source, so  *)
(* an assignment through the copy leaves the source as it was and an       *)
(* assignment through `self` leaves the copy as it was.                    *)
(*                                                                         *)
(* Python's None is "None" where a string is expected and NoneObj where an *)
(* object is expected.  An OrderedDict / dict whose order is observable    *)
(* is the sequence of its values in insertion order (every such dict is    *)
(* keyed by the value's varname); the metas, views, inputs and panel       *)
(* options dicts are functions from their keys.                            *)
(***************************************************************************)
EXTENDS Integers, Sequences, FiniteSets, TLC

VARIABLES
    tr,       \* the Trelliscope object the caller holds; NoneObj before construction
    pre,      \* the attribute values of that object just before the last call
    res,      \* the object the last call returned; NoneObj when it raised
    same,     \* TRUE when the returned object is the receiver itself
    err,      \* the exception the last call raised; "None" when it returned
    call,     \* the last call: its name and arguments
    log,      \* the panel columns the last call wrote or copied, in order
    ncalls,   \* the number of calls made on Trelliscope objects so far
    ds,       \* a DisplayState object a caller drives through DisplayState.set
    dspre,    \* its attribute values just before the last set call
    dscall,   \* the last set call: the State passed and `add`
    dsrank    \* per mapping and varname: rank of the varname's most recent add
              \* since the mapping's last replace (0: not set since then)

vars == <<tr, pre, res, same, err, call, log, ncalls, ds, dspre, dscall, dsrank>>

None == "None"
NoneObj == [cls |-> "NoneType"]

\* a Python list, where None may stand in its place
List(items) == [cls |-> "list", items |-> items]

\* `v` is evaluated once and F is applied to its value: a local variable
\* assigned once and read many times
Bind(v, F(_)) == CHOOSE r \in {F(x) : x \in {v}} : TRUE

\* isinstance(obj, classes)
IsInstance(obj, classes) == obj.cls \in classes

(***************************************************************************)
(* Sequence helpers (Python list / dict idioms).                           *)
(***************************************************************************)
Range(s) == {s[i] : i \in 1..Len(s)}

\* the values of a dict, without the one stored under key k
RECURSIVE Without(_, _)
Without(d, k) ==
    IF d = <<>> THEN <<>>
    ELSE IF Head(d).varname = k THEN Without(Tail(d), k)
    ELSE <<Head(d)>> \o Without(Tail(d), k)

\* list(d.keys())
Keys(d) == [i \in 1..Len(d) |-> d[i].varname]

\* k in d
HasKey(d, k) == \E i \in 1..Len(d) : d[i].varname = k

\* d[k]
Lookup(d, k) == d[CHOOSE i \in 1..Len(d) : d[i].varname = k]

\* d[v.varname] = v: an existing key keeps its position, a new key goes last
DictAssign(d, v) ==
    IF HasKey(d, v.varname)
    THEN [i \in 1..Len(d) |-> IF d[i].varname = v.varname THEN v ELSE d[i]]
    ELSE Append(d, v)

\* OrderedDict.move_to_end(k)
move_to_end(d, k) == Append(Without(d, k), Lookup(d, k))

NoDupKeys(d) == \A i, j \in 1..Len(d) : d[i].varname = d[j].varname => i = j

\* an unordered dict with d[k] = v
MapAssign(d, k, v) == [x \in DOMAIN d \cup {k} |-> IF x = k THEN v ELSE d[x]]

EmptyMap == [x \in {} |-> NoneObj]

(***************************************************************************)
(* metas.py: Meta type names.                                              *)
(***************************************************************************)
TYPE_STRING == "string"
TYPE_PANEL == "panel"
TYPE_HREF == "href"
TYPE_FACTOR == "factor"
TYPE_NUMBER == "number"
TYPE_DATE == "date"
TYPE_DATETIME == "datetime"
TYPE_CURRENCY == "currency"
TYPE_GRAPH == "graph"
TYPE_GEO == "geo"

(***************************************************************************)
(* state.py: the State classes.                                            *)
(***************************************************************************)
TYPE_LAYOUT == "layout"
TYPE_LABELS == "labels"
TYPE_SORT == "sort"
TYPE_FILTER == "filter"

DIR_ASCENDING == "asc"
DIR_DESCENDING == "desc"

FILTERTYPE_CATEGORY == "category"
FILTERTYPE_NUMBER_RANGE == "numberrange"

FilterStateClasses == {"CategoryFilterState", "NumberRangeFilterState"}

LayoutState(ncol, page) ==
    [cls |-> "LayoutState", type |-> TYPE_LAYOUT,
     ncol |-> ncol, page |-> page, viewtype |-> "grid"]

LabelState(varnames) ==
    [cls |-> "LabelState", type |-> TYPE_LABELS, varnames |-> varnames]

SortState(varname, dir) ==
    [cls |-> "SortState", type |-> TYPE_SORT,
     varname |-> varname, dir |-> dir, metatype |-> None]

\* values: List of strs, or NoneObj (the constructor wraps a bare str)
CategoryFilterState(varname, values) ==
    [cls |-> "CategoryFilterState", type |-> TYPE_FILTER, varname |-> varname,
     filtertype |-> FILTERTYPE_CATEGORY,
     applies_to |-> {TYPE_STRING, TYPE_FACTOR},
     metatype |-> None, regexp |-> None, values |-> values]

\* min and max are left at their default None
NumberRangeFilterState(varname) ==
    [cls |-> "NumberRangeFilterState", type |-> TYPE_FILTER, varname |-> varname,
     filtertype |-> FILTERTYPE_NUMBER_RANGE,
     applies_to |-> {TYPE_NUMBER},
     metatype |-> TYPE_NUMBER, min |-> None, max |-> None]

DisplayState ==
    [cls |-> "DisplayState",
     layout |-> NoneObj, labels |-> NoneObj, sort |-> <<>>, filter |-> <<>>]

\* the add branch with move_to_end left out
MappingSet_no_move(mapping, state, add) ==
    IF add THEN DictAssign(mapping, state) ELSE <<state>>

\* self.sort / self.filter after the SortState / FilterState branch of set
MappingSet(mapping, state, add) ==
    IF add
    THEN move_to_end(DictAssign(mapping, state), state.varname)
    ELSE <<state>>

\* DisplayState.set(state, add): the DisplayState after the in-place update
DisplayState_set(self, state, add) ==
    IF IsInstance(state, {"LayoutState"}) THEN [self EXCEPT !.layout = state]
    ELSE IF IsInstance(state, {"LabelState"}) THEN [self EXCEPT !.labels = state]
    ELSE IF IsInstance(state, {"SortState"})
    THEN [self EXCEPT !.sort = MappingSet(self.sort, state, add)]
    ELSE IF IsInstance(state, FilterStateClasses)
    THEN [self EXCEPT !.filter = MappingSet(self.filter, state, add)]
    ELSE self

(***************************************************************************)
(* The dataset (a pandas DataFrame).  A cell holds a Python value: a str   *)
(* (kept as the parts pathlib and str.startswith look at: the directory,   *)
(* the stem and the extension), a number, a plotly Figure or a datetime.   *)
(* A column has a name, a dtype ("object", "number", "category",           *)
(* "datetime") and one value per row.  A frame has its index levels (a     *)
(* plain frame has the one unnamed RangeIndex level) and its columns.      *)
(***************************************************************************)
REMOTE == "http://x"

Str(stem) == [ty |-> "str", dir |-> "", stem |-> stem, ext |-> ""]
File(dir, stem, ext) == [ty |-> "str", dir |-> dir, stem |-> stem, ext |-> ext]
Num(stem) == [ty |-> "num", dir |-> "", stem |-> stem, ext |-> ""]
Fig(stem) == [ty |-> "fig", dir |-> "", stem |-> stem, ext |-> ""]
Dt(stem) == [ty |-> "datetime", dir |-> "", stem |-> stem, ext |-> ""]

\* x.startswith("http")
startswith_http(x) == x.dir = REMOTE

Column(name, dtype, vals) == [name |-> name, dtype |-> dtype, vals |-> vals]

RangeIndex == <<Column(None, "number", <<Num("0"), Num("1")>>)>>

DataFrame(index, columns) == [index |-> index, columns |-> columns]

\* list(df.columns)
Columns(df) == [i \in 1..Len(df.columns) |-> df.columns[i].name]

\* c in df.columns
HasColumn(df, c) == \E i \in 1..Len(df.columns) : df.columns[i].name = c

\* df[c]
Col(df, c) == df.columns[CHOOSE i \in 1..Len(df.columns) : df.columns[i].name = c]

\* df[c] = vals: an existing column is replaced in place, a new one goes last
SetCol(df, col) ==
    IF HasColumn(df, col.name)
    THEN [df EXCEPT !.columns =
            [i \in 1..Len(@) |-> IF @[i].name = col.name THEN col ELSE @[i]]]
    ELSE [df EXCEPT !.columns = Append(@, col)]

NRows(df) == Len(df.index[1].vals)

\* set(series.unique())
Unique(series) == Range(series.vals)

RECURSIVE SelectSeq2(_, _, _)
SelectSeq2(s, Test(_, _), arg) ==
    IF s = <<>> THEN <<>>
    ELSE IF Test(arg, Head(s)) THEN <<Head(s)>> \o SelectSeq2(Tail(s), Test, arg)
    ELSE SelectSeq2(Tail(s), Test, arg)

(***************************************************************************)
(* utils.py                                                                *)
(***************************************************************************)
valid_image_extensions ==
    {"apng", "avif", "gif", "jpg", "jpeg", "jfif", "pjpeg", "pjp", "png", "svg", "webp"}

\* is_string_dtype holds of an object column; the first value decides
is_string_column(column) ==
    column.dtype = "object" /\ column.vals[1].ty = "str"

is_numeric_dtype(column) == column.dtype = "number"

is_all_remote(column) == \A x \in Range(column.vals) : startswith_http(x)

is_figure_column(df, c) ==
    Col(df, c).vals[1].ty = "fig" /\ \A x \in Range(Col(df, c).vals) : x.ty = "fig"

is_image_column(df, c) ==
    LET ext == Col(df, c).vals[1].ext
    IN  ext \in valid_image_extensions
        /\ \A x \in Range(Col(df, c).vals) : x.ext = ext

IsObjectCol(df, c) == Col(df, c).dtype = "object"
IsStringCol(df, c) == is_string_column(Col(df, c))
IsNumericCol(df, c) == is_numeric_dtype(Col(df, c))
IsFigureCol(df, c) == is_figure_column(df, c)
IsImageCol(df, c) == is_image_column(df, c)

find_figure_columns(df) ==
    SelectSeq2(SelectSeq2(Columns(df), IsObjectCol, df), IsFigureCol, df)

find_image_columns(df) ==
    SelectSeq2(SelectSeq2(Columns(df), IsStringCol, df), IsImageCol, df)

is_dataframe_grouped(df) ==
    ~(Len(df.index) = 1 /\ df.index[1].name = None)

get_dataframe_grouped_columns(df) == [i \in 1..Len(df.index) |-> df.index[i].name]

get_string_columns(df) == SelectSeq2(Columns(df), IsStringCol, df)

get_numeric_columns(df) == SelectSeq2(Columns(df), IsNumericCol, df)

\* df.set_index(key_cols).index.is_unique
IsUniqueIndex(df, key_cols) ==
    \A r1, r2 \in 1..NRows(df) :
        (\A i \in 1..Len(key_cols) :
            Col(df, key_cols[i]).vals[r1] = Col(df, key_cols[i]).vals[r2])
        => r1 = r2

\* the candidate list with the numeric columns first
get_uniquely_identifying_cols_numeric_first(df) ==
    LET all_cols == get_numeric_columns(df) \o get_string_columns(df)
        hits == {k \in 1..Len(all_cols) : IsUniqueIndex(df, SubSeq(all_cols, 1, k))}
    IN  IF hits = {} THEN <<>>
        ELSE SubSeq(all_cols, 1, CHOOSE k \in hits : \A j \in hits : k <= j)

\* the loop without its break: every candidate column is appended
get_uniquely_identifying_cols_no_break(df) ==
    LET all_cols == get_string_columns(df) \o get_numeric_columns(df)
    IN  IF \E k \in 1..Len(all_cols) : IsUniqueIndex(df, SubSeq(all_cols, 1, k))
        THEN all_cols ELSE <<>>

get_uniquely_identifying_cols(df) ==
    LET all_cols == get_string_columns(df) \o get_numeric_columns(df)
        hits == {k \in 1..Len(all_cols) : IsUniqueIndex(df, SubSeq(all_cols, 1, k))}
    IN  IF hits = {} THEN <<>>
        ELSE SubSeq(all_cols, 1, CHOOSE k \in hits : \A j \in hits : k <= j)

\* pandas DataFrame.reset_index(): the index levels become the first columns;
\* ok is FALSE when pandas raises (a level's name is already a column)
ResetIndexName(df, i) ==
    IF df.index[i].name # None THEN df.index[i].name
    ELSE IF Len(df.index) = 1 THEN "index"
    ELSE IF i = 1 THEN "level_0" ELSE "level_1"

reset_index(df) ==
    LET levels == [i \in 1..Len(df.index) |->
                     [df.index[i] EXCEPT !.name = ResetIndexName(df, i)]]
    IN  [ok |-> \A i \in 1..Len(levels) : ~HasColumn(df, levels[i].name),
         df |-> DataFrame(RangeIndex, levels \o df.columns)]

\* the rank of a string of the model's universe in Python's string order
StrRank(stem) ==
    CASE stem = "apple" -> 1
      [] stem = "banana" -> 2
      [] stem = "cherry" -> 3
      [] OTHER -> 4

\* sorted(values): the values of a finite set of strs, ascending
RECURSIVE Sorted(_)
Sorted(S) ==
    IF S = {} THEN <<>>
    ELSE LET m == CHOOSE x \in S : \A y \in S : StrRank(x.stem) <= StrRank(y.stem)
         IN  <<m>> \o Sorted(S \ {m})

(***************************************************************************)
(* panel_source.py, panels.py                                              *)
(***************************************************************************)
FilePanelSource(is_local) ==
    [cls |-> "FilePanelSource", type |-> "file", is_local |-> is_local]

_FIGURE_SUFFIX == "__FIGURE"

PanelClasses == {"ImagePanel", "FigurePanel"}

\* aspect ratios are kept in tenths: the default 1.5 is 15
ASPECT_RATIO_DEFAULT == 15

ImagePanel(varname, source, should_copy_to_output) ==
    [cls |-> "ImagePanel", varname |-> varname,
     aspect_ratio |-> ASPECT_RATIO_DEFAULT, is_image |-> TRUE,
     is_writeable |-> FALSE, should_copy |-> should_copy_to_output,
     source |-> source, panel_type_str |-> "img",
     panels_written |-> FALSE, figure_varname |-> None, extension |-> None]

FigurePanel(varname, source) ==
    [cls |-> "FigurePanel", varname |-> varname,
     aspect_ratio |-> ASPECT_RATIO_DEFAULT, is_image |-> FALSE,
     is_writeable |-> TRUE, should_copy |-> FALSE,
     source |-> source, panel_type_str |-> "img",
     panels_written |-> FALSE, figure_varname |-> varname \o _FIGURE_SUFFIX,
     extension |-> "png"]

\* PanelOptions(format=..., prerender=..., aspect=...) with the default width
\* and height; aspect is the one given, or width / height when none is given
PanelOptions(format, prerender, aspect) ==
    [cls |-> "PanelOptions", format |-> format, force |-> FALSE,
     prerender |-> prerender, aspect |-> aspect]

\* Panel.create_panel: err is the exception raised, or None with the panel.
\* Probing a column whose first value is no str raises in pathlib
\* (utils.get_extension) before anything else is looked at.
create_panel(df, panel_column, panel_options, is_known_figure_col, is_known_image_col) ==
    LET probe == ~(is_known_image_col \/ is_known_figure_col)
        known_image == is_known_image_col
                       \/ (probe /\ is_image_column(df, panel_column))
        known_figure == is_known_figure_col
                        \/ (probe /\ ~is_image_column(df, panel_column)
                                  /\ is_figure_column(df, panel_column))
        is_local == ~is_all_remote(Col(df, panel_column))
        made ==
            IF known_figure
            THEN [FigurePanel(panel_column, FilePanelSource(TRUE)) EXCEPT
                    !.extension =
                        IF panel_options # NoneObj /\ panel_options.format # None
                        THEN panel_options.format ELSE @]
            ELSE ImagePanel(panel_column, FilePanelSource(is_local), is_local)
    IN  IF probe /\ Col(df, panel_column).vals[1].ty # "str"
        THEN [err |-> "TypeError", panel |-> NoneObj]
        ELSE IF panel_options # NoneObj /\ ~panel_options.prerender
        THEN [err |-> "NotImplementedError", panel |-> NoneObj]
        ELSE IF ~known_figure /\ ~known_image
        THEN [err |-> "ValueError", panel |-> NoneObj]
        ELSE [err |-> None,
              panel |-> IF panel_options # NoneObj
                        THEN [made EXCEPT !.aspect_ratio = panel_options.aspect]
                        ELSE made]

(***************************************************************************)
(* metas.py                                                                *)
(***************************************************************************)
MetaClasses ==
    {"NumberMeta", "StringMeta", "HrefMeta", "FactorMeta", "PanelMeta",
     "CurrencyMeta", "DateMeta", "DatetimeMeta", "GraphMeta", "GeoMeta"}

\* an object with one attribute more, and with one attribute less
With(obj, attr, value) ==
    [k \in DOMAIN obj \cup {attr} |-> IF k = attr THEN value ELSE obj[k]]

Pop(obj, attr) == [k \in DOMAIN obj \ {attr} |-> obj[k]]

Meta(cls, type, varname, filterable, sortable, label) ==
    [cls |-> cls, type |-> type, varname |-> varname,
     filterable |-> filterable, sortable |-> sortable,
     label |-> label, tags |-> <<>>, levels |-> NoneObj, panel |-> NoneObj]

NumberMeta(varname, label) ==
    Meta("NumberMeta", TYPE_NUMBER, varname, TRUE, TRUE, label)

StringMeta(varname, label) ==
    Meta("StringMeta", TYPE_STRING, varname, TRUE, TRUE, label)

HrefMeta(varname, label) ==
    Meta("HrefMeta", TYPE_HREF, varname, FALSE, FALSE, label)

FactorMeta(varname, label, levels) ==
    [Meta("FactorMeta", TYPE_FACTOR, varname, TRUE, TRUE, label)
        EXCEPT !.levels = levels]

\* the aspect, panel_source and panel_type attributes are those of the panel
PanelMeta(panel, label) ==
    [Meta("PanelMeta", TYPE_PANEL, panel.varname, FALSE, FALSE, label)
        EXCEPT !.panel = [aspect |-> panel.aspect_ratio,
                          panel_source |-> panel.source,
                          panel_type |-> panel.panel_type_str]]

\* code: the default currency code "USD"
CurrencyMeta(varname, label) ==
    With(Meta("CurrencyMeta", TYPE_CURRENCY, varname, TRUE, TRUE, label), "code", "USD")

DateMeta(varname, label) ==
    Meta("DateMeta", TYPE_DATE, varname, TRUE, TRUE, label)

DatetimeMeta(varname, label) ==
    With(Meta("DatetimeMeta", TYPE_DATETIME, varname, TRUE, TRUE, label),
         "timezone", "UTC")

\* direction is left at its default "none"
GraphMeta(varname, label, idvarname) ==
    With(With(Meta("GraphMeta", TYPE_GRAPH, varname, TRUE, FALSE, label),
              "direction", "none"),
         "idvarname", idvarname)

GeoMeta(varname, latvar, longvar, label) ==
    With(With(Meta("GeoMeta", TYPE_GEO, varname, TRUE, FALSE, label),
              "latvar", latvar),
         "longvar", longvar)

\* Meta.check_varname, and its override in GeoMeta
check_varname(meta, df) ==
    IF meta.cls = "GeoMeta"
    THEN HasColumn(df, meta.latvar) /\ HasColumn(df, meta.longvar)
    ELSE HasColumn(df, meta.varname)

\* the number a numeric value of a dataset stands for
NumberValue(x) ==
    CASE x.stem = "0" -> 0
      [] x.stem = "1" -> 1
      [] x.stem = "2" -> 2
      [] x.stem = "3" -> 3
      [] x.stem = "4" -> 4
      [] x.stem = "20" -> 20
      [] x.stem = "45" -> 45
      [] x.stem = "100" -> 100
      [] x.stem = "200" -> 200
      [] x.stem = "-30" -> -30

\* utils.check_range
check_range(df, varname, min, max) ==
    \A x \in Range(Col(df, varname).vals) : min <= NumberValue(x) /\ NumberValue(x) <= max

\* utils.check_latitude_variable, utils.check_longitude_variable
check_latitude_variable(df, varname) ==
    is_numeric_dtype(Col(df, varname)) /\ check_range(df, varname, -90, 90)

check_longitude_variable(df, varname) ==
    is_numeric_dtype(Col(df, varname)) /\ check_range(df, varname, 0, 180)

\* utils.check_datetime through is_datetime_column(must_be_datetime_objects=
\* False): pd.to_datetime turns datetime objects and numbers into dates; no
\* str value of the datasets reads as a date, and no Figure does
check_datetime(df, varname) ==
    \A x \in Range(Col(df, varname).vals) : x.ty \in {"datetime", "num"}

\* FactorMeta.infer_levels: the column becomes categorical, the levels its categories
infer_levels(meta, df) ==
    [meta |-> [meta EXCEPT !.levels = List(Sorted(Unique(Col(df, meta.varname))))],
     df |-> SetCol(df, [Col(df, meta.varname) EXCEPT !.dtype = "category"])]

\* utils.check_exhaustive_levels
check_exhaustive_levels(df, levels, varname) ==
    Unique(Col(df, varname)) \subseteq Range(levels.items)

\* utils.check_atomic_vector: pandas infers "mixed" for a column of Figures
check_atomic_vector(df, varname) ==
    \A x \in Range(Col(df, varname).vals) : x.ty # "fig"

\* check_variable of each Meta class: the Meta and the frame after the call,
\* and whether the variable is accepted
check_variable(meta, df) ==
    CASE meta.cls = "NumberMeta" ->
            [ok |-> is_numeric_dtype(Col(df, meta.varname)), meta |-> meta, df |-> df]
      [] meta.cls = "StringMeta" ->
            [ok |-> check_atomic_vector(df, meta.varname), meta |-> meta, df |-> df]
      [] meta.cls = "HrefMeta" ->
            [ok |-> is_string_column(Col(df, meta.varname)), meta |-> meta, df |-> df]
      [] meta.cls = "FactorMeta" ->
            LET inf == IF meta.levels = NoneObj THEN infer_levels(meta, df)
                       ELSE [meta |-> meta, df |-> df]
            IN  [ok |-> check_exhaustive_levels(inf.df, inf.meta.levels, meta.varname),
                 meta |-> inf.meta, df |-> inf.df]
      [] meta.cls = "CurrencyMeta" ->
            [ok |-> is_numeric_dtype(Col(df, meta.varname)), meta |-> meta, df |-> df]
      [] meta.cls \in {"DateMeta", "DatetimeMeta"} ->
            [ok |-> check_datetime(df, meta.varname), meta |-> meta, df |-> df]
      [] meta.cls = "GraphMeta" ->
            [ok |-> FALSE, meta |-> meta, df |-> df]
      [] meta.cls = "GeoMeta" ->
            [ok |-> /\ check_latitude_variable(df, meta.latvar)
                    /\ check_longitude_variable(df, meta.longvar),
             meta |-> meta, df |-> df]
      [] OTHER -> [ok |-> TRUE, meta |-> meta, df |-> df]

\* the exception of a check_variable that does not accept the variable:
\* GraphMeta.check_variable ends in check_graph_var, which is not implemented
check_variable_error(meta, df) ==
    IF meta.cls = "GraphMeta" /\ HasColumn(df, meta.idvarname)
    THEN "NotImplementedError"
    ELSE "ValueError"

\* Meta.check_with_data(df): err is the exception raised or None; meta and df
\* are the Meta object and the frame as the call leaves them
check_with_data(meta, df) ==
    IF ~check_varname(meta, df)
    THEN [err |-> "ValueError", meta |-> meta, df |-> df]
    ELSE LET c == check_variable(meta, df)
         IN  [err |-> IF c.ok THEN None ELSE check_variable_error(meta, df),
              meta |-> c.meta, df |-> c.df]

\* PanelSource.to_dict and its override in FilePanelSource
PanelSource_to_dict(source) ==
    IF source.cls = "FilePanelSource"
    THEN With(Pop(source, "is_local"), "isLocal", source.is_local)
    ELSE source

\* Meta.to_dict: the attributes, with the varname in the place of a label None
Meta_to_dict(meta) ==
    [meta EXCEPT !.label = IF @ = None THEN meta.varname ELSE @]

\* to_dict of each Meta class: PanelMeta extends Meta.to_dict, GeoMeta
\* replaces it
to_dict(meta) ==
    CASE meta.cls = "PanelMeta" ->
            With(With(With(Pop(Meta_to_dict(meta), "panel"),
                           "aspect", meta.panel.aspect),
                      "source", PanelSource_to_dict(meta.panel.panel_source)),
                 "paneltype", meta.panel.panel_type)
      [] meta.cls = "GeoMeta" -> Pop(Pop(meta, "latvar"), "longvar")
      [] OTHER -> Meta_to_dict(meta)

(***************************************************************************)
(* view.py, input.py                                                       *)
(***************************************************************************)
RECURSIVE SetAll(_, _)
SetAll(display_state, states) ==
    IF states = <<>> THEN display_state
    ELSE SetAll(DisplayState_set(display_state, Head(states), TRUE), Tail(states))

\* View(name, layout_state, label_state, sort_states=..., filter_states=...)
View(name, layout_state, label_state, sort_states, filter_states) ==
    LET s1 == IF layout_state # NoneObj
              THEN DisplayState_set(DisplayState, layout_state, FALSE)
              ELSE DisplayState
        s2 == IF label_state # NoneObj
              THEN DisplayState_set(s1, label_state, FALSE) ELSE s1
    IN  [cls |-> "View", name |-> name,
         state |-> SetAll(SetAll(s2, sort_states), filter_states)]

Input(name) == [cls |-> "Input", name |-> name]

(***************************************************************************)
(* trelliscope.py: the Trelliscope object.  Its name, description, tags,   *)
(* path, id and keysig take no part in what follows and are left out.      *)
(***************************************************************************)
\* what a call on a Trelliscope object leaves behind
Return(self, ret) ==
    [recv |-> self, ret |-> ret, same |-> FALSE, err |-> None, log |-> <<>>]

Raise(self, e) ==
    [recv |-> self, ret |-> NoneObj, same |-> FALSE, err |-> e, log |-> <<>>]

\* Trelliscope.__copy: copy.deepcopy(self)
__copy(self) == self

_get_panel_columns(self) == Keys(self.panels)

_has_panel(self, panel_col) == HasKey(self.panels, panel_col)

_get_panel(self, panel_col) == Lookup(self.panels, panel_col)

_get_panel_figure_columns(self) ==
    [i \in 1..Len(self.panels) |-> self.panels[i].figure_varname]

\* Trelliscope._infer_primary_panel: self after the call
_infer_primary_panel(self) ==
    IF Len(_get_panel_columns(self)) > 0
    THEN [self EXCEPT !.primary_panel = _get_panel_columns(self)[1]]
    ELSE self

\* Trelliscope._get_key_cols with facet_cols None: the key columns, the
\* frame self holds afterwards, and the exception raised if any
_get_key_cols(data_frame, key_cols) ==
    IF key_cols # NoneObj
    THEN [err |-> None, key_cols |-> key_cols.items, data_frame |-> data_frame]
    ELSE IF is_dataframe_grouped(data_frame)
    THEN LET r == reset_index(data_frame)
         IN  [err |-> IF r.ok THEN None ELSE "ValueError",
              key_cols |-> get_dataframe_grouped_columns(data_frame),
              data_frame |-> r.df]
    ELSE LET cols == get_uniquely_identifying_cols(data_frame)
         IN  [err |-> IF Len(cols) = 0 THEN "ValueError" ELSE None,
              key_cols |-> cols, data_frame |-> data_frame]

\* Trelliscope.__init__(dataFrame, name, key_cols=..., path=..., primary_panel=...):
\* the new object, or NoneObj with the exception raised
Trelliscope(dataFrame, key_cols, path, primary_panel) ==
    LET k == _get_key_cols(dataFrame, key_cols)
    IN  IF k.err # None THEN [err |-> k.err, ret |-> NoneObj]
        ELSE [err |-> None,
              ret |-> [cls |-> "Trelliscope",
                       data_frame |-> k.data_frame,
                       key_cols |-> k.key_cols,
                       path |-> path,
                       panel_options |-> EmptyMap,
                       panels |-> <<>>,
                       primary_panel |-> primary_panel,
                       metas |-> EmptyMap,
                       columns_to_ignore |-> <<>>,
                       state |-> DisplayState,
                       views |-> EmptyMap,
                       inputs |-> EmptyMap,
                       thumbnail_url |-> NoneObj]]

add_panel(self, panel) ==
    LET tr0 == __copy(self)
    IN  IF ~IsInstance(panel, PanelClasses) THEN Raise(self, "ValueError")
        ELSE Return(self, [tr0 EXCEPT !.panels = DictAssign(@, panel)])

\* set_meta with the copy left out: the Meta is checked against and stored in
\* the receiver, and the receiver is returned
set_meta_on_self(self, meta) ==
    IF ~IsInstance(meta, MetaClasses) THEN Raise(self, "ValueError")
    ELSE LET c == check_with_data(meta, self.data_frame)
         IN  IF c.err # None THEN Raise(self, c.err)
             ELSE LET t == [self EXCEPT !.data_frame = c.df,
                                        !.metas = MapAssign(@, c.meta.varname, c.meta)]
                  IN  [recv |-> t, ret |-> t, same |-> TRUE, err |-> None, log |-> <<>>]

set_meta(self, meta) ==
    LET tr0 == __copy(self)
    IN  IF ~IsInstance(meta, MetaClasses) THEN Raise(self, "ValueError")
        ELSE LET c == check_with_data(meta, tr0.data_frame)
             IN  IF c.err # None THEN Raise(self, c.err)
                 ELSE Return(self, [tr0 EXCEPT
                                      !.data_frame = c.df,
                                      !.metas = MapAssign(@, c.meta.varname, c.meta)])

\* Trelliscope.set_metas: its first statement is tr = self._copy(), and the
\* class defines __copy only, which Python stores as _Trelliscope__copy
set_metas(self, meta_list) == Raise(self, "AttributeError")

set_state(self, state) ==
    LET tr0 == __copy(self)
    IN  Return(self, [tr0 EXCEPT !.state = state])

add_view(self, view) ==
    LET tr0 == __copy(self)
    IN  Return(self, [tr0 EXCEPT !.views = MapAssign(@, view.name, view)])

add_input(self, input) ==
    LET tr0 == __copy(self)
    IN  Return(self, [tr0 EXCEPT !.inputs = MapAssign(@, input.name, input)])

\* LabelState.check_with_data
LabelState_check_with_data(label_state, df) ==
    Range(label_state.varnames) \subseteq Range(Columns(df))

set_default_labels(self, varnames) ==
    LET tr0 == __copy(self)
        label_state == LabelState(varnames)
    IN  IF ~LabelState_check_with_data(label_state, tr0.data_frame)
        THEN Raise(self, "ValueError")
        ELSE LET state2 == DisplayState_set(tr0.state, label_state, FALSE)
             IN  Return(self, set_state(tr0, state2).ret)

set_default_layout(self, ncol, page) ==
    LET tr0 == __copy(self)
        state2 == DisplayState_set(tr0.state, LayoutState(ncol, page), FALSE)
    IN  Return(self, set_state(tr0, state2).ret)

\* SortState.check_with_data / FilterState.check_with_data
State_check_with_data(state, df) == HasColumn(df, state.varname)

\* the loop of set_default_sort over zip(varnames, sort_directions)
RECURSIVE SortLoop(_, _, _, _, _, _)
SortLoop(state2, varnames, sort_directions, df, add, is_first) ==
    IF varnames = <<>> \/ sort_directions = <<>> THEN [err |-> None, state |-> state2]
    ELSE IF Head(sort_directions) \notin {DIR_ASCENDING, DIR_DESCENDING}
    THEN [err |-> "ValueError", state |-> state2]
    ELSE LET ss == SortState(Head(varnames), Head(sort_directions))
             to_add == ~is_first \/ add
         IN  IF ~State_check_with_data(ss, df)
             THEN [err |-> "ValueError", state |-> state2]
             ELSE SortLoop(DisplayState_set(state2, ss, to_add),
                           Tail(varnames), Tail(sort_directions), df, add, FALSE)

\* sort_directions: NoneObj or a List of directions
set_default_sort(self, varnames, sort_directions, add) ==
    LET tr0 == __copy(self)
        dirs == IF sort_directions = NoneObj
                THEN [i \in 1..Len(varnames) |-> DIR_ASCENDING]
                ELSE IF Len(sort_directions.items) = 1
                THEN [i \in 1..Len(varnames) |-> sort_directions.items[1]]
                ELSE sort_directions.items
    IN  IF Len(varnames) # Len(dirs) THEN Raise(self, "ValueError")
        ELSE LET l == SortLoop(tr0.state, varnames, dirs, tr0.data_frame, add, TRUE)
             IN  IF l.err # None THEN Raise(self, l.err)
                 ELSE Return(self, set_state(tr0, l.state).ret)

\* SortState.check_with_meta and FilterState.check_with_meta: the exception
\* or None.  No method of Trelliscope calls them.
SortState_check_with_meta(sort, meta) ==
    IF ~meta.sortable THEN "ValueError" ELSE None

FilterState_check_with_meta(filter, meta) ==
    IF meta.type \notin filter.applies_to THEN "ValueError" ELSE None

\* filter.check_with_data for the FilterState classes: the exception or None
Filter_check_with_data(filter, df) ==
    IF ~State_check_with_data(filter, df) THEN "ValueError"
    ELSE IF filter.cls # "CategoryFilterState" THEN None
    ELSE IF filter.values = NoneObj THEN "TypeError"
    ELSE IF Range(filter.values.items) \subseteq Unique(Col(df, filter.varname))
    THEN None
    ELSE "ValueError"

\* the loop of set_default_filters; is_first is never cleared by the loop body
RECURSIVE FilterLoop(_, _, _, _, _)
FilterLoop(state2, filters, df, add, is_first) ==
    IF filters = <<>> THEN [err |-> None, state |-> state2]
    ELSE IF ~IsInstance(Head(filters), FilterStateClasses)
    THEN [err |-> "ValueError", state |-> state2]
    ELSE IF Filter_check_with_data(Head(filters), df) # None
    THEN [err |-> Filter_check_with_data(Head(filters), df), state |-> state2]
    ELSE FilterLoop(DisplayState_set(state2, Head(filters), ~is_first \/ add),
                    Tail(filters), df, add, is_first)

set_default_filters(self, filters, add) ==
    LET tr0 == __copy(self)
        l == FilterLoop(tr0.state, filters, tr0.data_frame, add, TRUE)
    IN  IF l.err # None THEN Raise(self, l.err)
        ELSE Return(self, set_state(tr0, l.state).ret)

set_primary_panel(self, panel_column_name) ==
    LET tr0 == __copy(self)
    IN  IF ~_has_panel(tr0, panel_column_name) THEN Raise(self, "ValueError")
        ELSE Return(self, [tr0 EXCEPT !.primary_panel = panel_column_name])

\* panel_options_dictionary: a dict from panel names to objects
set_panel_options(self, panel_options_dictionary) ==
    LET tr0 == __copy(self)
        d == panel_options_dictionary
    IN  IF \E k \in DOMAIN d : ~IsInstance(d[k], {"PanelOptions"})
        THEN Raise(self, "ValueError")
        ELSE Return(self, [tr0 EXCEPT !.panel_options =
                [k \in DOMAIN @ \cup DOMAIN d |-> IF k \in DOMAIN d THEN d[k] ELSE @[k]]])

_get_panel_options(self, panel_name) ==
    IF panel_name \in DOMAIN self.panel_options
    THEN self.panel_options[panel_name]
    ELSE NoneObj

(***************************************************************************)
(* trelliscope.py: inference.  Python iterates a set of strs in an order   *)
(* that the hash seed decides; where the code iterates one, the operator   *)
(* takes the order as a parameter: a sequence that lists the universe the  *)
(* set is drawn from.                                                      *)
(***************************************************************************)
\* the sequences that list each element of S once
Orders(S) ==
    {o \in [1..Cardinality(S) -> S] : \A i, j \in 1..Cardinality(S) : o[i] = o[j] => i = j}

IsIn(S, x) == x \in S

\* list(S) as the iteration order `order` gives it
ListOfSet(S, order) == SelectSeq2(order, IsIn, S)

\* _infer_meta_variable with the test for a registered panel column placed
\* behind the tests on the dtype and the values of the column
_infer_meta_variable_panel_last(self, meta_column, meta_name) ==
    IF meta_name \in Range(_get_panel_figure_columns(self)) THEN NoneObj
    ELSE IF meta_column.dtype = "category" THEN FactorMeta(meta_name, None, NoneObj)
    ELSE IF is_numeric_dtype(meta_column) THEN NumberMeta(meta_name, None)
    ELSE IF is_string_column(meta_column)
    THEN IF is_all_remote(meta_column) THEN HrefMeta(meta_name, None)
         ELSE StringMeta(meta_name, None)
    ELSE IF meta_name \in Range(_get_panel_columns(self))
    THEN PanelMeta(_get_panel(self, meta_name), None)
    ELSE NoneObj

_infer_meta_variable(self, meta_column, meta_name) ==
    IF meta_name \in Range(_get_panel_columns(self))
    THEN PanelMeta(_get_panel(self, meta_name), None)
    ELSE IF meta_name \in Range(_get_panel_figure_columns(self)) THEN NoneObj
    ELSE IF meta_column.dtype = "category" THEN FactorMeta(meta_name, None, NoneObj)
    ELSE IF is_numeric_dtype(meta_column) THEN NumberMeta(meta_name, None)
    ELSE IF is_string_column(meta_column)
    THEN IF is_all_remote(meta_column) THEN HrefMeta(meta_name, None)
         ELSE StringMeta(meta_name, None)
    ELSE NoneObj

_finalize_meta_labels(self) ==
    LET tr0 == __copy(self)
        mutated == [self EXCEPT !.metas =
                      [k \in DOMAIN @ |->
                         IF @[k].label = None
                         THEN [@[k] EXCEPT !.label = self.metas[k].varname]
                         ELSE @[k]]]
    IN  Return(mutated, tr0)

\* metas_to_infer without the subtraction of the existing meta names
metas_to_infer_all_columns(self) == Range(Columns(self.data_frame))

\* set(column_names) - set(existing_meta_names)
metas_to_infer(self) == Range(Columns(self.data_frame)) \ DOMAIN self.metas

\* the loop of _infer_metas over metas_to_infer
RECURSIVE InferLoop(_, _, _)
InferLoop(tr0, names, metas_to_remove) ==
    IF names = <<>> THEN [err |-> None, tr |-> tr0, metas_to_remove |-> metas_to_remove]
    ELSE LET meta_name == Head(names)
             meta == _infer_meta_variable(tr0, Col(tr0.data_frame, meta_name), meta_name)
         IN  IF meta = NoneObj
             THEN InferLoop(tr0, Tail(names), Append(metas_to_remove, meta_name))
             ELSE Bind(set_meta(tr0, meta), LAMBDA o :
                      IF o.err # None
                      THEN [err |-> o.err, tr |-> tr0, metas_to_remove |-> metas_to_remove]
                      ELSE InferLoop(o.ret, Tail(names), metas_to_remove))

\* order: the iteration order of the set metas_to_infer
_infer_metas(self, order) ==
    LET tr0 == __copy(self)
    IN  Bind(InferLoop(tr0, ListOfSet(metas_to_infer(tr0), order), <<>>), LAMBDA l :
            IF l.err # None THEN Raise(self, l.err)
            ELSE Return(self,
                    _finalize_meta_labels(
                        [l.tr EXCEPT !.columns_to_ignore = @ \o l.metas_to_remove]).ret))

\* the default number of columns of an inferred layout
DEFAULT_NCOL == 3

\* the metatype loops of _infer_state, leaving a metatype that is set alone
SetMetatypes_keep_preset(self, mapping) ==
    [i \in 1..Len(mapping) |->
        IF mapping[i].metatype # None THEN mapping[i]
        ELSE [mapping[i] EXCEPT !.metatype = self.metas[mapping[i].varname].type]]

\* filter_map[filter_name].metatype = self.metas[filter_name].type, for each entry
SetMetatypes(self, mapping) ==
    [i \in 1..Len(mapping) |->
        [mapping[i] EXCEPT !.metatype = self.metas[mapping[i].varname].type]]

IsLevel(meta, v) == v \in Range(meta.levels.items)

\* _infer_state without its last loop: the filters keep their values
TranslateFactorFilters_left_out(self, mapping, vorder) == mapping

\* the last loop of _infer_state; vorder: the iteration order of the set
\* set(meta.levels).intersection(filter.values)
TranslateFactorFilters(self, mapping, vorder) ==
    [i \in 1..Len(mapping) |->
        LET filter == mapping[i]
            meta == self.metas[filter.varname]
        IN  IF IsInstance(filter, {"CategoryFilterState"})
               /\ IsInstance(meta, {"FactorMeta"})
               /\ filter.values # NoneObj
               /\ Len(filter.values.items) > 0
            THEN [filter EXCEPT !.values =
                    List(ListOfSet(Range(meta.levels.items) \cap Range(filter.values.items),
                                   vorder))]
            ELSE filter]

\* _infer_state with the default layout and labels assigned unconditionally
_infer_state_always_default(self, state, vorder) ==
    LET s2 == [state EXCEPT !.layout = LayoutState(DEFAULT_NCOL, 1),
                            !.labels = LabelState(self.key_cols)]
    IN  IF \E n \in Range(Keys(s2.filter)) \cup Range(Keys(s2.sort)) :
              n \notin DOMAIN self.metas
        THEN [err |-> "KeyError", state |-> NoneObj]
        ELSE [err |-> None,
              state |-> [s2 EXCEPT
                  !.filter = TranslateFactorFilters(self, SetMetatypes(self, @), vorder),
                  !.sort = SetMetatypes(self, @)]]

\* Trelliscope._infer_state(state): the DisplayState returned, or the exception
_infer_state(self, state, vorder) ==
    LET state2 == state
        s1 == IF state2.layout = NoneObj
              THEN [state2 EXCEPT !.layout = LayoutState(DEFAULT_NCOL, 1)] ELSE state2
        s2 == IF s1.labels = NoneObj
              THEN [s1 EXCEPT !.labels = LabelState(self.key_cols)] ELSE s1
    IN  IF \E n \in Range(Keys(s2.filter)) \cup Range(Keys(s2.sort)) :
              n \notin DOMAIN self.metas
        THEN [err |-> "KeyError", state |-> NoneObj]
        ELSE [err |-> None,
              state |-> [s2 EXCEPT
                  !.filter = TranslateFactorFilters(self, SetMetatypes(self, @), vorder),
                  !.sort = SetMetatypes(self, @)]]

\* DisplayState._copy with copy.copy in the place of copy.deepcopy
DisplayState__copy_shallow(state) == [state |-> state, deep |-> FALSE]

\* DisplayState._copy: copy.deepcopy(self).  deep: the copy owns its State
\* objects, none of them is an object of the original
DisplayState__copy(state) == [state |-> state, deep |-> TRUE]

\* a DisplayState holds one State object or more
HasStateObjects(state) ==
    \/ state.layout # NoneObj
    \/ state.labels # NoneObj
    \/ Len(state.sort) > 0
    \/ Len(state.filter) > 0

\* a call of _infer_state as the caller sees it: the exception, the
\* DisplayState returned, the attribute values of the argument after the call
\* and whether the two share a State object.  The code assigns to attributes
\* of state2 and of the State objects in its two mappings only.
_infer_state_call(self, state, vorder) ==
    LET c == DisplayState__copy(state)
    IN  Bind(_infer_state(self, c.state, vorder), LAMBDA o :
            [err |-> o.err,
             ret |-> o.state,
             arg |-> IF c.deep \/ o.err # None THEN state
                     ELSE [state EXCEPT !.sort = o.state.sort,
                                        !.filter = o.state.filter],
             shares |-> ~c.deep /\ HasStateObjects(state)])

\* Trelliscope.infer.  `for view in tr.views` iterates the keys of the dict,
\* which are strs, and the first statement of the loop body calls
\* view._copy(): with one View or more the loop raises AttributeError.
infer(self, order, vorder) ==
    LET tr0 == __copy(self)
    IN  Bind(_infer_metas(tr0, order), LAMBDA m :
            IF m.err # None THEN Raise(self, m.err)
            ELSE Bind(_infer_state(m.ret, m.ret.state, vorder), LAMBDA s :
                IF s.err # None THEN Raise(self, s.err)
                ELSE IF DOMAIN m.ret.views # {} THEN Raise(self, "AttributeError")
                ELSE Return(self, [m.ret EXCEPT !.state = s.state])))

\* the two loops of infer_panels over the figure and the image columns
RECURSIVE PanelLoop(_, _, _, _)
PanelLoop(tr0, columns, is_known_figure_col, is_known_image_col) ==
    IF columns = <<>> THEN [err |-> None, tr |-> tr0]
    ELSE Bind(create_panel(tr0.data_frame, Head(columns),
                           _get_panel_options(tr0, Head(columns)),
                           is_known_figure_col, is_known_image_col), LAMBDA c :
             IF c.err # None THEN [err |-> c.err, tr |-> tr0]
             ELSE Bind(add_panel(tr0, c.panel), LAMBDA a :
                      PanelLoop(a.ret, Tail(columns),
                                is_known_figure_col, is_known_image_col)))

\* infer_panels from `if tr.primary_panel is None` on
InferPrimary(self, tr1) ==
    Return(self, IF tr1.primary_panel = None THEN _infer_primary_panel(tr1) ELSE tr1)

\* infer_panels without the test for registered panels: the columns are
\* scanned on every call
infer_panels_always_scan(self) ==
    LET tr0 == __copy(self)
    IN  Bind(PanelLoop(tr0, find_figure_columns(tr0.data_frame), TRUE, FALSE),
             LAMBDA f :
             IF f.err # None THEN Raise(self, f.err)
             ELSE Bind(PanelLoop(f.tr, find_image_columns(f.tr.data_frame), FALSE, TRUE),
                       LAMBDA g :
                  IF g.err # None THEN Raise(self, g.err)
                  ELSE InferPrimary(self, g.tr)))

infer_panels(self) ==
    LET tr0 == __copy(self)
    IN  IF Len(_get_panel_columns(tr0)) # 0 THEN InferPrimary(self, tr0)
        ELSE Bind(PanelLoop(tr0, find_figure_columns(tr0.data_frame), TRUE, FALSE),
                  LAMBDA f :
             IF f.err # None THEN Raise(self, f.err)
             ELSE Bind(PanelLoop(f.tr, find_image_columns(f.tr.data_frame), FALSE, TRUE),
                       LAMBDA g :
                  IF g.err # None THEN Raise(self, g.err)
                  ELSE InferPrimary(self, g.tr)))

(***************************************************************************)
(* trelliscope.py: writing.  The image files the dataset refers to lie in  *)
(* the directory LOCAL_DIR; the panel output directory is given relative to    *)
(* the display's directory, so a path under it names no file as seen from  *)
(* the working directory.                                                  *)
(***************************************************************************)
LOCAL_DIR == "imgs"
PANEL_OUTPUT_DIR == "panels"
TEMP_DIR == "tmp"

\* _get_panel_output_path(panel_col, is_absolute=False)
_get_panel_output_path(panel_col) == PANEL_OUTPUT_DIR \o "/" \o panel_col

\* shutil.copyfile finds its source
FileExists(x) == x.ty = "str" /\ x.dir = LOCAL_DIR

\* __copy_image_and_update_reference applied to every row: the column after
\* the call, or the exception of the first row that raises
_copy_images_to_build_directory(df, column_name, output_dir_for_dataframe) ==
    LET vals == Col(df, column_name).vals
        bad == {i \in 1..Len(vals) : ~FileExists(vals[i])}
        first == CHOOSE i \in bad : \A j \in bad : i <= j
    IN  IF bad # {}
        THEN [err |-> IF vals[first].ty # "str" THEN "TypeError" ELSE "FileNotFoundError",
              df |-> df]
        ELSE [err |-> None,
              df |-> SetCol(df, [Col(df, column_name) EXCEPT
                        !.dtype = "object",
                        !.vals = [i \in 1..Len(vals) |->
                                    File(output_dir_for_dataframe, vals[i].stem, vals[i].ext)]])]

\* str(value), sanitized
StrOf(x) == x.dir \o x.stem \o x.ext

\* "_".join(key_col_values) for row i
RECURSIVE JoinKeys(_, _, _)
JoinKeys(df, key_cols, i) ==
    IF Len(key_cols) = 1 THEN StrOf(Col(df, key_cols[1]).vals[i])
    ELSE StrOf(Col(df, key_cols[1]).vals[i]) \o "_" \o JoinKeys(df, Tail(key_cols), i)

\* __write_figure applied to every row of the frame
write_figures(df, fig_column, output_dir_for_dataframe, extension, key_cols) ==
    LET vals == Col(df, fig_column).vals
    IN  IF \E k \in Range(key_cols) : ~HasColumn(df, k)
        THEN [err |-> "KeyError", df |-> df]
        ELSE IF Len(key_cols) = 0
        THEN [err |-> "AttributeError", df |-> df]
        ELSE IF \E x \in Range(vals) : x.ty # "fig"
        THEN [err |-> "AttributeError", df |-> df]
        ELSE [err |-> None,
              df |-> SetCol(df, [Col(df, fig_column) EXCEPT
                        !.vals = [i \in 1..Len(vals) |->
                                    File(output_dir_for_dataframe,
                                         JoinKeys(df, key_cols, i), extension)]])]

\* Trelliscope.write_or_copy_panels(panel_col)
write_or_copy_panels(self, panel_col) ==
    LET tr0 == __copy(self)
        panel == _get_panel(self, panel_col)
        relative_output_dir == _get_panel_output_path(panel_col)
        copied == _copy_images_to_build_directory(tr0.data_frame, panel_col,
                                                  relative_output_dir)
        shadowed == SetCol(tr0.data_frame,
                           [Col(tr0.data_frame, panel_col) EXCEPT
                               !.name = panel.figure_varname])
        written == write_figures(shadowed, panel_col, relative_output_dir,
                                 panel.extension, self.key_cols)
        step == IF panel.should_copy THEN copied
                ELSE IF panel.is_writeable THEN written
                ELSE [err |-> None, df |-> tr0.data_frame]
        marked == [self EXCEPT !.panels =
                     DictAssign(@, [panel EXCEPT !.panels_written = TRUE])]
    IN  IF ~_has_panel(self, panel_col) THEN Raise(self, "ValueError")
        ELSE IF tr0.path = None THEN Raise(self, "TypeError")
        ELSE IF ~HasColumn(tr0.data_frame, panel_col) THEN Raise(self, "KeyError")
        ELSE IF step.err # None THEN Raise(self, step.err)
        ELSE [Return(marked, [tr0 EXCEPT !.data_frame = step.df])
                EXCEPT !.log = <<panel_col>>]

\* Trelliscope._infer_thumbnail_url: self after the call (the method returns
\* self), or the exception
_infer_thumbnail_url(self) ==
    LET s1 == IF self.primary_panel = None THEN _infer_primary_panel(self) ELSE self
    IN  IF s1.primary_panel = None THEN [err |-> "ValueError", self |-> s1]
        ELSE IF ~_has_panel(s1, s1.primary_panel) THEN [err |-> "ValueError", self |-> s1]
        ELSE IF ~HasColumn(s1.data_frame, s1.primary_panel)
        THEN [err |-> "KeyError", self |-> s1]
        ELSE [err |-> None,
              self |-> [s1 EXCEPT !.thumbnail_url =
                          Col(s1.data_frame, s1.primary_panel).vals[1]]]

\* the loop of write_display over the panel columns
RECURSIVE WriteLoop(_, _, _, _)
WriteLoop(tr0, panels, force_write, written) ==
    IF panels = <<>> THEN [err |-> None, tr |-> tr0, log |-> written]
    ELSE LET panel == _get_panel(tr0, Head(panels))
         IN  IF (panel.is_writeable \/ panel.should_copy)
                /\ (~panel.panels_written \/ force_write)
             THEN Bind(write_or_copy_panels(tr0, Head(panels)), LAMBDA o :
                      IF o.err # None THEN [err |-> o.err, tr |-> tr0, log |-> written]
                      ELSE WriteLoop(o.ret, Tail(panels), force_write, written \o o.log))
             ELSE WriteLoop(tr0, Tail(panels), force_write, written)

\* write_display up to the end of the write/copy loop
write_display_panels(self, force_write) ==
    LET tr0 == __copy(self)
        tr1 == IF tr0.path = None THEN [tr0 EXCEPT !.path = TEMP_DIR] ELSE tr0
    IN  Bind(infer_panels(tr1), LAMBDA p :
            IF p.err # None THEN Raise(self, p.err)
            ELSE IF Len(_get_panel_columns(p.ret)) = 0 THEN Raise(self, "ValueError")
            ELSE Bind(WriteLoop(p.ret, _get_panel_columns(p.ret), force_write, <<>>),
                      LAMBDA w :
                 IF w.err # None THEN [Raise(self, w.err) EXCEPT !.log = w.log]
                 ELSE [Return(self, w.tr) EXCEPT !.log = w.log]))

\* write_display with the test for registered panels moved behind the
\* inference and the writing of the display-info and metadata files
write_display_check_last(self, force_write, order, vorder) ==
    LET tr0 == __copy(self)
        tr1 == IF tr0.path = None THEN [tr0 EXCEPT !.path = TEMP_DIR] ELSE tr0
    IN  Bind(infer_panels(tr1), LAMBDA p :
            IF p.err # None THEN Raise(self, p.err)
            ELSE Bind(WriteLoop(p.ret, _get_panel_columns(p.ret), force_write, <<>>),
                      LAMBDA w :
                 IF w.err # None THEN [Raise(self, w.err) EXCEPT !.log = w.log]
                 ELSE Bind(infer(w.tr, order, vorder), LAMBDA i :
                     IF i.err # None THEN [Raise(self, i.err) EXCEPT !.log = w.log]
                     ELSE IF Len(_get_panel_columns(i.ret)) = 0
                     THEN [Raise(self, "ValueError")
                             EXCEPT !.log = w.log \o <<"displayInfo", "metaData">>]
                     ELSE Bind(_infer_thumbnail_url(__copy(i.ret)), LAMBDA t :
                         IF t.err # None THEN [Raise(self, t.err) EXCEPT !.log = w.log]
                         ELSE [Return(self, t.self)
                                 EXCEPT !.log = w.log \o <<"displayInfo", "metaData">>]))))

\* Trelliscope.write_display(force_write); the files written after the
\* panels are logged by their names
write_display(self, force_write, order, vorder) ==
    Bind(write_display_panels(self, force_write), LAMBDA w :
        IF w.err # None THEN w
        ELSE Bind(infer(w.ret, order, vorder), LAMBDA i :
            IF i.err # None THEN [Raise(self, i.err) EXCEPT !.log = w.log]
            ELSE Bind(_infer_thumbnail_url(__copy(i.ret)), LAMBDA t :
                IF t.err # None THEN [Raise(self, t.err) EXCEPT !.log = w.log]
                ELSE [Return(self, t.self)
                        EXCEPT !.log = w.log \o <<"displayInfo", "metaData">>])))

(***************************************************************************)
(* The datasets, the arguments and the calls a caller makes.               *)
(***************************************************************************)
DF_fruit ==
    DataFrame(RangeIndex,
        <<Column("name", "object", <<Str("apple"), Str("banana")>>),
          Column("size", "number", <<Num("1"), Num("1")>>),
          Column("img", "object",
                 <<File(REMOTE, "apple", "jpg"), File(REMOTE, "banana", "jpg")>>)>>)

DF_plots ==
    DataFrame(RangeIndex,
        <<Column("name", "object", <<Str("apple"), Str("apple")>>),
          Column("size", "number", <<Num("1"), Num("2")>>),
          Column("fig", "object", <<Fig("f1"), Fig("f2")>>)>>)

DF_local ==
    DataFrame(RangeIndex,
        <<Column("kind", "category", <<Str("apple"), Str("banana")>>),
          Column("size", "number", <<Num("1"), Num("2")>>),
          Column("img", "object",
                 <<File(LOCAL_DIR, "apple", "png"), File(LOCAL_DIR, "banana", "png")>>)>>)

DF_grouped ==
    DataFrame(<<Column("name", "object", <<Str("apple"), Str("banana")>>)>>,
        <<Column("size", "number", <<Num("1"), Num("1")>>),
          Column("img", "object",
                 <<File(LOCAL_DIR, "apple", "png"), File(LOCAL_DIR, "banana", "png")>>)>>)

DF_dup ==
    DataFrame(RangeIndex,
        <<Column("name", "object", <<Str("apple"), Str("apple")>>),
          Column("size", "number", <<Num("1"), Num("1")>>)>>)

Datasets == {DF_fruit, DF_plots, DF_local, DF_grouped, DF_dup}

KeyColArgs == {NoneObj, List(<<>>), List(<<"name">>)}

PanelArgs ==
    {ImagePanel("img", FilePanelSource(TRUE), TRUE),
     FigurePanel("fig", FilePanelSource(TRUE)),
     Input("img")}

MetaArgs ==
    {StringMeta("name", "Name"), NumberMeta("size", None), NumberMeta("name", None),
     FactorMeta("name", None, NoneObj), Input("name")}

f_name == CategoryFilterState("name", List(<<Str("apple")>>))
f_kind == CategoryFilterState("kind", List(<<Str("banana"), Str("apple")>>))
f_size == NumberRangeFilterState("size")
\* a filter declared with a value the column does not hold
f_apple_cherry == CategoryFilterState("kind", List(<<Str("cherry"), Str("apple")>>))

StateArgs ==
    {[DisplayState EXCEPT !.sort = <<SortState("name", DIR_ASCENDING),
                                     SortState("size", DIR_DESCENDING)>>,
                          !.filter = <<f_size, f_name>>],
     [DisplayState EXCEPT !.labels = LabelState(<<"nope">>),
                          !.filter = <<f_kind>>],
     [DisplayState EXCEPT !.sort = <<SortState("name", DIR_DESCENDING)>>,
                          !.filter = <<NumberRangeFilterState("name")>>],
     [DisplayState EXCEPT !.filter = <<f_apple_cherry>>]}

ViewArgs ==
    {View("v1", NoneObj, NoneObj, <<SortState("size", DIR_DESCENDING)>>, <<>>),
     View("v2", LayoutState(2, 1), LabelState(<<"name">>), <<>>, <<f_size>>)}

InputArgs == {Input("comments")}

LabelArgs == {<<"name">>, <<"size", "nope">>}

LayoutArgs == {[ncol |-> 2, page |-> 1]}

SortVarnameArgs == {<<>>, <<"name">>, <<"size", "name">>, <<"nope">>}

SortDirectionArgs ==
    {NoneObj, List(<<DIR_DESCENDING>>), List(<<DIR_DESCENDING, DIR_ASCENDING>>),
     List(<<"up">>)}

FilterArgs ==
    {<<>>, <<f_name>>, <<f_name, f_size>>, <<f_size, f_kind>>, <<Input("size")>>}

PrimaryPanelArgs == {"img", "nope"}

PanelOptionsArgs ==
    {[x \in {"img"} |-> PanelOptions("jpg", TRUE, 10)],
     [x \in {"fig"} |-> PanelOptions(None, FALSE, 10)],
     [x \in {"img", "fig"} |-> IF x = "img" THEN Input("img")
                               ELSE PanelOptions("svg", TRUE, 20)]}

\* the most calls a caller makes on Trelliscope objects after constructing one
MaxCalls == 2

\* the most DisplayState.set calls a caller makes on one DisplayState
MaxSets == 3

NoCall == [name |-> "none"]

NoRank == [v \in {"name", "size", "kind"} |-> 0]

Init ==
    /\ tr = NoneObj
    /\ pre = NoneObj
    /\ res = NoneObj
    /\ same = FALSE
    /\ err = None
    /\ call = NoCall
    /\ log = <<>>
    /\ ncalls = 0
    /\ ds = DisplayState
    /\ dspre = DisplayState
    /\ dscall = NoCall
    /\ dsrank = [sort |-> NoRank, filter |-> NoRank]

\* a caller constructs a Trelliscope object with the given path and keeps it
\* when no exception is raised
New(path) ==
    /\ tr = NoneObj
    /\ \E df \in Datasets, key_cols \in KeyColArgs :
         LET o == Trelliscope(df, key_cols, path, None)
         IN  /\ tr' = o.ret
             /\ res' = o.ret
             /\ err' = o.err
             /\ call' = [name |-> "Trelliscope", dataFrame |-> df,
                         key_cols |-> key_cols, path |-> path]
    /\ pre' = NoneObj
    /\ same' = FALSE
    /\ log' = <<>>
    /\ UNCHANGED <<ncalls, ds, dspre, dscall, dsrank>>

\* Trelliscope(df, name, key_cols=...): path is left at its default
Construct == New(None)

\* Trelliscope(df, name, key_cols=..., path="out")
ConstructAt == New("out")

\* a call on the object the caller holds, with Outcome `outcome`
Call(c, outcome) ==
    /\ tr # NoneObj
    /\ ncalls < MaxCalls
    /\ pre' = tr
    /\ \E o \in {outcome} :
         /\ tr' = o.recv
         /\ res' = o.ret
         /\ same' = o.same
         /\ err' = o.err
         /\ log' = o.log
    /\ call' = c
    /\ ncalls' = ncalls + 1
    /\ UNCHANGED <<ds, dspre, dscall, dsrank>>

\* tr = tr.method(...): the caller goes on with the object the call returned
Adopt ==
    /\ res # NoneObj
    /\ call.name \notin {"Trelliscope", "adopt", "_infer_state"}
    /\ tr' = res
    /\ pre' = tr
    /\ call' = [name |-> "adopt"]
    /\ UNCHANGED <<res, same, err, log, ncalls, ds, dspre, dscall, dsrank>>

AddPanel ==
    \E panel \in PanelArgs :
        Call([name |-> "add_panel", panel |-> panel], add_panel(tr, panel))

SetMeta ==
    \E meta \in MetaArgs :
        Call([name |-> "set_meta", meta |-> meta], set_meta(tr, meta))

SetState ==
    \E state \in StateArgs :
        Call([name |-> "set_state", state |-> state], set_state(tr, state))

AddView ==
    \E view \in ViewArgs :
        Call([name |-> "add_view", view |-> view], add_view(tr, view))

AddInput ==
    \E input \in InputArgs :
        Call([name |-> "add_input", input |-> input], add_input(tr, input))

SetDefaultLabels ==
    \E varnames \in LabelArgs :
        Call([name |-> "set_default_labels", varnames |-> varnames],
             set_default_labels(tr, varnames))

SetDefaultLayout ==
    \E a \in LayoutArgs :
        Call([name |-> "set_default_layout", ncol |-> a.ncol, page |-> a.page],
             set_default_layout(tr, a.ncol, a.page))

SetDefaultSort ==
    \E varnames \in SortVarnameArgs, sort_directions \in SortDirectionArgs, add \in BOOLEAN :
        Call([name |-> "set_default_sort", varnames |-> varnames,
              sort_directions |-> sort_directions, add |-> add],
             set_default_sort(tr, varnames, sort_directions, add))

SetDefaultFilters ==
    \E filters \in FilterArgs, add \in BOOLEAN :
        Call([name |-> "set_default_filters", filters |-> filters, add |-> add],
             set_default_filters(tr, filters, add))

SetPrimaryPanel ==
    \E panel_column_name \in PrimaryPanelArgs :
        Call([name |-> "set_primary_panel", panel_column_name |-> panel_column_name],
             set_primary_panel(tr, panel_column_name))

SetPanelOptions ==
    \E d \in PanelOptionsArgs :
        Call([name |-> "set_panel_options", panel_options_dictionary |-> d],
             set_panel_options(tr, d))

\* the values the CategoryFilterStates of a DisplayState list: every set that
\* _infer_state iterates is drawn from them
filter_values(state) ==
    UNION {Range(state.filter[i].values.items) :
             i \in {j \in 1..Len(state.filter) :
                      /\ IsInstance(state.filter[j], {"CategoryFilterState"})
                      /\ state.filter[j].values # NoneObj}}

PanelColArgs == {"img", "fig", "nope"}

Infer ==
    /\ tr # NoneObj
    /\ \E order \in Orders(metas_to_infer(tr)), vorder \in Orders(filter_values(tr.state)) :
         Call([name |-> "infer", order |-> order, vorder |-> vorder],
              infer(tr, order, vorder))

InferMetas ==
    /\ tr # NoneObj
    /\ \E order \in Orders(metas_to_infer(tr)) :
         Call([name |-> "_infer_metas", order |-> order], _infer_metas(tr, order))

FinalizeMetaLabels ==
    Call([name |-> "_finalize_meta_labels"], _finalize_meta_labels(tr))

InferPanels ==
    Call([name |-> "infer_panels"], infer_panels(tr))

WriteOrCopyPanels ==
    \E panel_col \in PanelColArgs :
        Call([name |-> "write_or_copy_panels", panel_col |-> panel_col],
             write_or_copy_panels(tr, panel_col))

\* the iteration orders the inference inside write_display(force_write) may meet
WriteDisplayOrders(self, force_write) ==
    Bind(write_display_panels(self, force_write), LAMBDA w :
        IF w.err # None THEN {<<>>} ELSE Orders(metas_to_infer(w.ret)))

WriteDisplay ==
    /\ tr # NoneObj
    /\ \E force_write \in BOOLEAN :
         \E order \in WriteDisplayOrders(tr, force_write),
            vorder \in Orders(filter_values(tr.state)) :
             Call([name |-> "write_display", force_write |-> force_write,
                   order |-> order, vorder |-> vorder],
                  write_display(tr, force_write, order, vorder))

DSStateArgs ==
    {SortState(v, d) : v \in {"name", "size", "kind"}, d \in {DIR_ASCENDING, DIR_DESCENDING}}
    \cup {f_name, f_kind, f_size, CategoryFilterState("name", List(<<Str("banana")>>))}
    \cup {LayoutState(2, 1), LabelState(<<"name">>)}

\* the ranks after set(state, add): the varname set is the most recent of its mapping
NextRank(rank, state, add) ==
    LET r == rank[state.type]
        top == CHOOSE n \in Range([i \in 1..3 |-> r[<<"name", "size", "kind">>[i]]]) :
                  \A v \in DOMAIN r : r[v] <= n
    IN  IF state.type \notin {TYPE_SORT, TYPE_FILTER} THEN rank
        ELSE IF add THEN [rank EXCEPT ![state.type][state.varname] = top + 1]
        ELSE [rank EXCEPT ![state.type] = [NoRank EXCEPT ![state.varname] = 1]]

\* a caller calls ds.set(state, add) on a DisplayState it holds
DSSet ==
    /\ ncalls < MaxSets
    /\ \E state \in DSStateArgs, add \in BOOLEAN :
         /\ ds' = DisplayState_set(ds, state, add)
         /\ dscall' = [name |-> "set", state |-> state, add |-> add]
         /\ dsrank' = NextRank(dsrank, state, add)
    /\ dspre' = ds
    /\ ncalls' = ncalls + 1
    /\ UNCHANGED <<tr, pre, res, same, err, call, log>>

\* the constructor and the setters
Next ==
    \/ Construct
    \/ Adopt
    \/ AddPanel
    \/ SetMeta
    \/ SetState
    \/ AddView
    \/ AddInput
    \/ SetDefaultLabels
    \/ SetDefaultLayout
    \/ SetDefaultSort
    \/ SetDefaultFilters
    \/ SetPrimaryPanel
    \/ SetPanelOptions

Spec == Init /\ [][Next]_vars

\* the constructor, the setters that inference reads, inference and writing
NextInfer ==
    \/ ConstructAt
    \/ Adopt
    \/ AddPanel
    \/ SetMeta
    \/ SetState
    \/ AddView
    \/ SetPanelOptions
    \/ Infer
    \/ InferMetas
    \/ FinalizeMetaLabels
    \/ InferPanels
    \/ WriteOrCopyPanels
    \/ WriteDisplay

SpecInfer == Init /\ [][NextInfer]_vars

\* DisplayState.set on its own
NextDS == DSSet

SpecDS == Init /\ [][NextDS]_vars

(***************************************************************************)
(* _infer_state on a DisplayState the caller holds.                        *)
(***************************************************************************)
StateInputs ==
    StateArgs \cup
    {DisplayState,
     [DisplayState EXCEPT !.layout = LayoutState(2, 2)],
     [DisplayState EXCEPT !.layout = LayoutState(1, 1),
                          !.labels = LabelState(<<"size">>),
                          !.sort = <<SortState("size", DIR_ASCENDING)>>]}

\* tr._infer_state(state) on a DisplayState of the caller: ds is that object
\* after the call, dspre before it; `same` tells whether the DisplayState
\* returned shares a State object with it
InferState ==
    /\ tr # NoneObj
    /\ ncalls < MaxCalls
    /\ \E state \in StateInputs \cup {tr.state} :
         \E vorder \in Orders(filter_values(state)) :
           \E o \in {_infer_state_call(tr, state, vorder)} :
             /\ dspre' = state
             /\ ds' = o.arg
             /\ res' = o.ret
             /\ same' = o.shares
             /\ err' = o.err
             /\ call' = [name |-> "_infer_state", state |-> state, vorder |-> vorder]
    /\ pre' = tr
    /\ log' = <<>>
    /\ ncalls' = ncalls + 1
    /\ UNCHANGED <<tr, dscall, dsrank>>

NextState ==
    \/ ConstructAt
    \/ Adopt
    \/ SetMeta
    \/ InferMetas
    \/ InferState

SpecState == Init /\ [][NextState]_vars

(***************************************************************************)
(* The Meta classes on their own: check_with_data and to_dict.             *)
(***************************************************************************)
DF_geo ==
    DataFrame(RangeIndex,
        <<Column("name", "object", <<Str("apple"), Str("banana")>>),
          Column("id", "object", <<Str("cherry"), Str("date")>>),
          Column("size", "number", <<Num("1"), Num("2")>>),
          Column("lat", "number", <<Num("45"), Num("-30")>>),
          Column("long", "number", <<Num("100"), Num("20")>>),
          Column("when", "object", <<Dt("d1"), Dt("d2")>>)>>)

DF_geo_coords ==
    DataFrame(RangeIndex,
        <<Column("coords", "object", <<Str("apple"), Str("banana")>>),
          Column("lat", "number", <<Num("45"), Num("-30")>>),
          Column("long", "number", <<Num("200"), Num("20")>>)>>)

DF_coords ==
    DataFrame(RangeIndex,
        <<Column("coords", "number", <<Num("1"), Num("2")>>),
          Column("lat", "object", <<Str("apple"), Str("banana")>>)>>)

MetaFrames == {DF_geo, DF_geo_coords, DF_coords, DF_fruit, DF_plots, DF_local}

MetaVarnames == {"name", "size", "coords", "when", "img"}

MetaLabels == {None, "Label"}

MetaInputs ==
    UNION {UNION {
        {NumberMeta(v, l), CurrencyMeta(v, l), StringMeta(v, l),
         FactorMeta(v, l, NoneObj), DateMeta(v, l), DatetimeMeta(v, l),
         GraphMeta(v, l, None), GraphMeta(v, l, "id"),
         GeoMeta(v, "lat", "long", l), HrefMeta(v, l),
         PanelMeta(ImagePanel(v, FilePanelSource(TRUE), TRUE), l)}
        : l \in MetaLabels} : v \in MetaVarnames}

\* meta.check_with_data(df)
MetaCheckWithData ==
    /\ \E meta \in MetaInputs, df \in MetaFrames :
         \E o \in {check_with_data(meta, df)} :
            /\ call' = [name |-> "check_with_data", meta |-> meta, df |-> df]
            /\ err' = o.err
    /\ res' = NoneObj
    /\ UNCHANGED <<tr, pre, same, log, ncalls, ds, dspre, dscall, dsrank>>

\* meta.to_dict()
MetaToDict ==
    /\ \E meta \in MetaInputs :
         /\ call' = [name |-> "to_dict", meta |-> meta]
         /\ res' = to_dict(meta)
    /\ err' = None
    /\ UNCHANGED <<tr, pre, same, log, ncalls, ds, dspre, dscall, dsrank>>

NextMetas ==
    \/ MetaCheckWithData
    \/ MetaToDict

SpecMetas == Init /\ [][NextMetas]_vars

(***************************************************************************)
(* set_meta and set_metas with Metas of every class.                       *)
(***************************************************************************)
SetMetaFrames == {DF_geo, DF_geo_coords, DF_fruit}

SetMetaInputs ==
    {m \in MetaInputs : m.label = None /\ m.varname \in {"name", "coords"}}
    \cup {StringMeta("name", "Name"), Input("name")}

MetaListArgs ==
    {<<>>, <<NumberMeta("size", None)>>,
     <<StringMeta("name", None), StringMeta("name", "Name")>>}

ConstructForMetas ==
    /\ tr = NoneObj
    /\ \E df \in SetMetaFrames :
         \E o \in {Trelliscope(df, NoneObj, "out", None)} :
             /\ tr' = o.ret
             /\ res' = o.ret
             /\ err' = o.err
             /\ call' = [name |-> "Trelliscope", dataFrame |-> df,
                         key_cols |-> NoneObj, path |-> "out"]
    /\ pre' = NoneObj
    /\ same' = FALSE
    /\ log' = <<>>
    /\ UNCHANGED <<ncalls, ds, dspre, dscall, dsrank>>

SetMetaOfAnyClass ==
    \E meta \in SetMetaInputs :
        Call([name |-> "set_meta", meta |-> meta], set_meta(tr, meta))

SetMetas ==
    \E meta_list \in MetaListArgs :
        Call([name |-> "set_metas", meta_list |-> meta_list], set_metas(tr, meta_list))

NextSetMeta ==
    \/ ConstructForMetas
    \/ Adopt
    \/ SetMetaOfAnyClass
    \/ SetMetas

SpecSetMeta == Init /\ [][NextSetMeta]_vars

(***************************************************************************)
(* Key-column inference on its own: frames of three rows.                  *)
(***************************************************************************)
\* the rows of a generated frame
KeyRows == 3

\* the patterns of equal and different values in a column of KeyRows rows:
\* the first row holds value 1, a later row a value seen above it or the next one
KeyPatterns ==
    {p \in [1..KeyRows -> 1..KeyRows] :
        /\ p[1] = 1
        /\ \A i \in 2..KeyRows : \E j \in 1..(i - 1) : p[i] <= p[j] + 1}

StrValue(n) == Str(<<"apple", "banana", "cherry", "date">>[n])
NumValue(n) == Num(<<"1", "2", "3", "4">>[n])

StrColumn(name, p) == Column(name, "object", [i \in 1..KeyRows |-> StrValue(p[i])])
NumColumn(name, p) == Column(name, "number", [i \in 1..KeyRows |-> NumValue(p[i])])

KeyIndex == <<Column(None, "number", [i \in 1..KeyRows |-> NumValue(i)])>>

\* ungrouped frames: a numeric column before two string columns, and a string
\* column before two numeric columns
KeyFrames ==
    {DataFrame(KeyIndex, <<NumColumn("size", a), StrColumn("name", b), StrColumn("kind", c)>>) :
        a \in KeyPatterns, b \in KeyPatterns, c \in KeyPatterns}
    \cup
    {DataFrame(KeyIndex, <<StrColumn("name", a), NumColumn("size", b), NumColumn("count", c)>>) :
        a \in KeyPatterns, b \in KeyPatterns, c \in KeyPatterns}

\* Trelliscope(df, name) on a generated frame: key_cols is left at None
ConstructFrame ==
    /\ tr = NoneObj
    /\ call = NoCall
    /\ \E df \in KeyFrames :
         \E o \in {Trelliscope(df, NoneObj, None, None)} :
             /\ tr' = o.ret
             /\ res' = o.ret
             /\ err' = o.err
             /\ call' = [name |-> "Trelliscope", dataFrame |-> df,
                         key_cols |-> NoneObj, path |-> None]
    /\ UNCHANGED <<pre, same, log, ncalls, ds, dspre, dscall, dsrank>>

NextKeys == ConstructFrame

SpecKeys == Init /\ [][NextKeys]_vars

(***************************************************************************)
(* Panel inference on its own: frames with no, one and two panel columns.  *)
(***************************************************************************)
DF_two_figs ==
    DataFrame(RangeIndex,
        <<Column("name", "object", <<Str("apple"), Str("banana")>>),
          Column("fig", "object", <<Fig("f1"), Fig("f2")>>),
          Column("fig2", "object", <<Fig("g1"), Fig("g2")>>)>>)

DF_two_imgs ==
    DataFrame(RangeIndex,
        <<Column("name", "object", <<Str("apple"), Str("banana")>>),
          Column("img", "object",
                 <<File(LOCAL_DIR, "apple", "png"), File(LOCAL_DIR, "banana", "png")>>),
          Column("img2", "object",
                 <<File(REMOTE, "apple", "jpg"), File(REMOTE, "banana", "jpg")>>)>>)

DF_fig_img ==
    DataFrame(RangeIndex,
        <<Column("size", "number", <<Num("1"), Num("2")>>),
          Column("fig", "object", <<Fig("f1"), Fig("f2")>>),
          Column("img", "object",
                 <<File(LOCAL_DIR, "apple", "png"), File(LOCAL_DIR, "banana", "png")>>)>>)

DF_plain ==
    DataFrame(RangeIndex,
        <<Column("name", "object", <<Str("apple"), Str("banana")>>),
          Column("size", "number", <<Num("1"), Num("2")>>)>>)

PanelFrames == {DF_fruit, DF_plots, DF_local, DF_two_figs, DF_two_imgs, DF_fig_img, DF_plain}

ConstructorPrimaryPanelArgs == {None, "img", "nope"}

\* Trelliscope(df, name, path="out", primary_panel=...)
ConstructPanels ==
    /\ tr = NoneObj
    /\ \E df \in PanelFrames, primary_panel \in ConstructorPrimaryPanelArgs :
         \E o \in {Trelliscope(df, NoneObj, "out", primary_panel)} :
             /\ tr' = o.ret
             /\ res' = o.ret
             /\ err' = o.err
             /\ call' = [name |-> "Trelliscope", dataFrame |-> df,
                         key_cols |-> NoneObj, path |-> "out",
                         primary_panel |-> primary_panel]
    /\ pre' = NoneObj
    /\ same' = FALSE
    /\ log' = <<>>
    /\ UNCHANGED <<ncalls, ds, dspre, dscall, dsrank>>

NextPanels ==
    \/ ConstructPanels
    \/ Adopt
    \/ AddPanel
    \/ SetPanelOptions
    \/ InferPanels

SpecPanels == Init /\ [][NextPanels]_vars

(***************************************************************************)
(* Writing the panels of a display whose panels were inferred at set-up.   *)
(***************************************************************************)
WriteFrames == {DF_two_figs, DF_fig_img, DF_local, DF_plain}

\* Trelliscope(df, name, path="out")
ConstructForWrite ==
    /\ tr = NoneObj
    /\ \E df \in WriteFrames :
         \E o \in {Trelliscope(df, NoneObj, "out", None)} :
             /\ tr' = o.ret
             /\ res' = o.ret
             /\ err' = o.err
             /\ call' = [name |-> "Trelliscope", dataFrame |-> df,
                         key_cols |-> NoneObj, path |-> "out"]
    /\ pre' = NoneObj
    /\ same' = FALSE
    /\ log' = <<>>
    /\ UNCHANGED <<ncalls, ds, dspre, dscall, dsrank>>

\* tr = Trelliscope(...).infer_panels(): the caller registers the panels
\* right after construction and keeps the object returned
RegisterPanels ==
    /\ tr # NoneObj
    /\ call.name = "Trelliscope"
    /\ \E o \in {infer_panels(tr)} :
         /\ o.err = None
         /\ tr' = o.ret
         /\ res' = o.ret
    /\ pre' = tr
    /\ same' = FALSE
    /\ err' = None
    /\ log' = <<>>
    /\ call' = [name |-> "infer_panels"]
    /\ UNCHANGED <<ncalls, ds, dspre, dscall, dsrank>>

NextWrite ==
    \/ ConstructForWrite
    \/ RegisterPanels
    \/ Adopt
    \/ WriteOrCopyPanels
    \/ WriteDisplay

SpecWrite == Init /\ [][NextWrite]_vars

(***************************************************************************)
(* Panel.create_panel on its own.                                          *)
(***************************************************************************)
CreatePanelOptionArgs ==
    {NoneObj, PanelOptions(None, TRUE, 20), PanelOptions("svg", TRUE, 10),
     PanelOptions(None, FALSE, 10)}

\* Panel.create_panel(df, panel_column, panel_options, is_known_figure_col,
\* is_known_image_col)
CreatePanel ==
    /\ \E df \in PanelFrames, panel_options \in CreatePanelOptionArgs,
          is_known_figure_col \in BOOLEAN, is_known_image_col \in BOOLEAN :
         \E panel_column \in Range(Columns(df)) :
           \E o \in {create_panel(df, panel_column, panel_options,
                                  is_known_figure_col, is_known_image_col)} :
             /\ call' = [name |-> "create_panel", df |-> df,
                         panel_column |-> panel_column,
                         panel_options |-> panel_options,
                         is_known_figure_col |-> is_known_figure_col,
                         is_known_image_col |-> is_known_image_col]
             /\ res' = o.panel
             /\ err' = o.err
    /\ UNCHANGED <<tr, pre, same, log, ncalls, ds, dspre, dscall, dsrank>>

NextCreatePanel == CreatePanel

SpecCreatePanel == Init /\ [][NextCreatePanel]_vars

(***************************************************************************)
(* Properties of the setters and of DisplayState.set.                      *)
(***************************************************************************)
SetterNames ==
    {"add_panel", "set_meta", "set_state", "add_view", "add_input",
     "set_default_labels", "set_default_layout", "set_default_sort",
     "set_default_filters", "set_primary_panel", "set_panel_options"}

\* the receiver's fields that a setter has to leave alone
SameContents(a, b) ==
    /\ a.panels = b.panels
    /\ a.panel_options = b.panel_options
    /\ a.metas = b.metas
    /\ a.state = b.state
    /\ a.views = b.views
    /\ a.inputs = b.inputs
    /\ a.primary_panel = b.primary_panel
    /\ a.key_cols = b.key_cols
    /\ a.data_frame = b.data_frame

\* C1: after a call of any setter of Trelliscope, with any arguments, the
\* receiver's panels, panel options, metas, display state, views, inputs,
\* primary panel, key columns and dataset are what they were before the call,
\* whether the call returned or raised; a call that returned gave back an
\* object that is not the receiver.
C1_SettersCopyOnWrite ==
    call.name \in SetterNames =>
        /\ SameContents(tr, pre)
        /\ err = None => (res # NoneObj /\ ~same)

\* C1 witness: set_meta of a FactorMeta returned; the returned object holds the
\* new Meta and the column cast to category, the receiver holds neither
C1_Witness ==
    /\ call.name = "set_meta"
    /\ err = None
    /\ IsInstance(call.meta, {"FactorMeta"})
    /\ res.metas # tr.metas
    /\ res.data_frame # tr.data_frame
    /\ SameContents(tr, pre)

\* C2: DisplayState.set(s, add) for a SortState or FilterState s: with
\* add=True the mapping of s's kind is afterwards the previous mapping without
\* its entry for s.varname, in the previous order, followed by s as the last
\* entry; with add=False it is the single entry s. So the mapping holds at most
\* one entry per varname, and its entries are ordered by each varname's most
\* recent add since the last replace.
C2_SetMapping ==
    /\ NoDupKeys(ds.sort)
    /\ NoDupKeys(ds.filter)
    /\ \A kind \in {TYPE_SORT, TYPE_FILTER} :
         LET m == ds[kind]
             r == dsrank[kind]
         IN  /\ {m[i].varname : i \in 1..Len(m)} = {v \in DOMAIN r : r[v] > 0}
             /\ \A i, j \in 1..Len(m) : i < j => r[m[i].varname] < r[m[j].varname]
    /\ (dscall.name = "set" /\ dscall.state.type \in {TYPE_SORT, TYPE_FILTER}) =>
         LET s == dscall.state
             m == ds[s.type]
             p == dspre[s.type]
             keep == {i \in 1..Len(p) : p[i].varname # s.varname}
             other == IF s.type = TYPE_SORT THEN TYPE_FILTER ELSE TYPE_SORT
         IN  /\ ds[other] = dspre[other]
             /\ IF dscall.add
                THEN /\ Len(m) = Cardinality(keep) + 1
                     /\ m[Len(m)] = s
                     /\ \A i \in keep : m[Cardinality({j \in keep : j <= i})] = p[i]
                ELSE m = <<s>>

\* C2 witness: set(s, add=True) for a varname whose entry was the first of two
\* or more: the entry has moved to the end with the new state
C2_Witness ==
    /\ dscall.name = "set"
    /\ dscall.add
    /\ dscall.state.type = TYPE_SORT
    /\ Len(dspre.sort) >= 2
    /\ dspre.sort[1].varname = dscall.state.varname
    /\ dspre.sort[1] # dscall.state
    /\ ds.sort[Len(ds.sort)] = dscall.state
    /\ ds.sort[1] = dspre.sort[2]

\* the SortStates set_default_sort builds from its arguments
GivenSorts(varnames, sort_directions) ==
    [i \in 1..Len(varnames) |->
        SortState(varnames[i],
                  IF sort_directions = NoneObj THEN DIR_ASCENDING
                  ELSE IF Len(sort_directions.items) = 1 THEN sort_directions.items[1]
                  ELSE sort_directions.items[i])]

\* C3: set_default_filters(filters, add=False) overrides the whole filter
\* specification: the returned orchestrator's filter mapping holds every filter
\* of the list, in list order, and none of the filters set before; with
\* add=True the filters set before are kept in order and the given ones are
\* appended after them.
C3_FiltersOverrideOrAppend ==
    (call.name = "set_default_filters" /\ err = None) =>
        res.state.filter = IF call.add THEN pre.state.filter \o call.filters
                           ELSE call.filters

\* C4: set_default_sort(varnames, sort_directions, add) with distinct
\* varnames: with add=False the returned orchestrator's sort mapping is exactly
\* the given varnames in the given order and every sort set before is gone;
\* with add=True the sorts set before are kept in order and the given ones
\* follow them.  Entry i has direction sort_directions[i], 'asc' when no
\* directions are given, and the one given direction when a single one is given.
C4_SortOverrideOrAppend ==
    (call.name = "set_default_sort" /\ err = None
        /\ \A i, j \in 1..Len(call.varnames) :
               call.varnames[i] = call.varnames[j] => i = j) =>
        res.state.sort =
            IF call.add
            THEN pre.state.sort \o GivenSorts(call.varnames, call.sort_directions)
            ELSE GivenSorts(call.varnames, call.sort_directions)

\* C10: every orchestrator that was constructed successfully, whether its key
\* columns were given, taken from the grouping of a grouped dataset or
\* inferred, has a non-empty key_cols, and each key column is a column of the
\* dataset the orchestrator holds.
C10_KeyColsAreColumns ==
    (call.name = "Trelliscope" /\ err = None) =>
        /\ Len(tr.key_cols) > 0
        /\ \A i \in 1..Len(tr.key_cols) : HasColumn(tr.data_frame, tr.key_cols[i])

(***************************************************************************)
(* Properties of inference and writing.                                    *)
(***************************************************************************)
\* C5: after the write/copy step has run for a panel column, in
\* write_or_copy_panels or inside write_display, the orchestrator returned
\* records the panel as written (panels_written is true), so that
\* write_display(force_write=False) on the returned orchestrator does not
\* write or copy that panel again.
C5_WrittenPanelsAreRecorded ==
    (call.name \in {"write_or_copy_panels", "write_display"} /\ err = None) =>
        \A i \in 1..Len(log) :
            _has_panel(res, log[i]) =>
                /\ _get_panel(res, log[i]).panels_written
                /\ \A o \in {write_display_panels(res, FALSE)} :
                       o.err = None /\ log[i] \notin Range(o.log)

\* C6: after _infer_metas, and after infer() on an orchestrator without
\* Views, every Meta of the returned orchestrator has a label: the one it was
\* given, or its varname when it was given none; label finalization applied to
\* the result changes nothing.
C6_InferredMetasHaveLabels ==
    (call.name \in {"_infer_metas", "infer"} /\ err = None) =>
        /\ \A k \in DOMAIN res.metas :
               /\ res.metas[k].label # None
               /\ res.metas[k].label =
                     IF k \in DOMAIN pre.metas /\ pre.metas[k].label # None
                     THEN pre.metas[k].label
                     ELSE res.metas[k].varname
        /\ \A o \in {_finalize_meta_labels(res)} :
               o.ret.metas = res.metas /\ o.recv.metas = res.metas

\* C7: infer() on an orchestrator with one or more Views, whose metas and
\* default state can be inferred, returns an orchestrator that holds each View
\* under its name with a LayoutState and a LabelState set and with the
\* metatype of each of its sorts and filters filled from the inferred Metas.
C7_InferFillsViews ==
    (call.name = "infer" /\ DOMAIN pre.views # {}
        /\ \A o \in {infer([pre EXCEPT !.views = EmptyMap], call.order, call.vorder)} :
               o.err = None
               /\ \A v \in DOMAIN pre.views :
                      \A n \in Range(Keys(pre.views[v].state.sort))
                                 \cup Range(Keys(pre.views[v].state.filter)) :
                          n \in DOMAIN o.ret.metas) =>
        /\ err = None
        /\ \A v \in DOMAIN pre.views :
               /\ v \in DOMAIN res.views
               /\ res.views[v].state.layout # NoneObj
               /\ res.views[v].state.labels # NoneObj
               /\ \A kind \in {TYPE_SORT, TYPE_FILTER} :
                      \A i \in 1..Len(res.views[v].state[kind]) :
                          res.views[v].state[kind][i].metatype =
                              res.metas[res.views[v].state[kind][i].varname].type

InferenceNames ==
    {"infer", "infer_panels", "write_or_copy_panels", "write_display",
     "_infer_metas", "_finalize_meta_labels"}

\* C8: infer, infer_panels, write_or_copy_panels, write_display, _infer_metas
\* and _finalize_meta_labels do not modify the receiver: its metas with their
\* labels, its panels with their panels_written, its display state, its views
\* and its primary panel are after the call what they were before it.
C8_InferenceLeavesReceiver ==
    call.name \in InferenceNames =>
        /\ tr.metas = pre.metas
        /\ tr.panels = pre.panels
        /\ tr.state = pre.state
        /\ tr.views = pre.views
        /\ tr.primary_panel = pre.primary_panel

\* C9: infer() is idempotent: when infer() has returned, infer() on the
\* returned orchestrator returns one with the same metas, the same display
\* state, the same views and the same columns_to_ignore.
C9_InferIdempotent ==
    (call.name = "infer" /\ err = None) =>
        \A order \in Orders(metas_to_infer(res)),
           vorder \in Orders(filter_values(res.state)) :
            \A o \in {infer(res, order, vorder)} :
                /\ o.err = None
                /\ o.ret.metas = res.metas
                /\ o.ret.state = res.state
                /\ o.ret.views = res.views
                /\ o.ret.columns_to_ignore = res.columns_to_ignore

(***************************************************************************)
(* Properties of key-column inference.                                     *)
(***************************************************************************)
\* the values of row r in the columns cols
RowKey(df, cols, r) == [i \in 1..Len(cols) |-> Col(df, cols[i]).vals[r]]

\* the rows of df have pairwise different values in the columns cols
UniqueRows(df, cols) ==
    Cardinality({RowKey(df, cols, r) : r \in 1..NRows(df)}) = NRows(df)

\* the constructor was called without key columns on an ungrouped frame
InferredKeys ==
    /\ call.name = "Trelliscope"
    /\ call.key_cols = NoneObj
    /\ ~is_dataframe_grouped(call.dataFrame)

\* C11: without key columns, on an ungrouped dataset, key-column inference
\* returns the shortest prefix of the string columns in dataset order followed
\* by the numeric columns in dataset order whose combined values are unique
\* across the rows; when no prefix is unique the constructor raises ValueError.
C11_ShortestUniquePrefix ==
    InferredKeys =>
        LET df == call.dataFrame
            cand == get_string_columns(df) \o get_numeric_columns(df)
            good == {k \in 1..Len(cand) : UniqueRows(df, SubSeq(cand, 1, k))}
        IN  IF good = {} THEN err = "ValueError" /\ tr = NoneObj
            ELSE /\ err = None
                 /\ Len(tr.key_cols) \in good
                 /\ \A k \in good : Len(tr.key_cols) <= k
                 /\ tr.key_cols = SubSeq(cand, 1, Len(tr.key_cols))

\* C11 witness: the dataset's first column is numeric and unique on its own,
\* and the key columns are the two string columns
C11_Witness ==
    /\ InferredKeys
    /\ err = None
    /\ Columns(call.dataFrame)[1] = "size"
    /\ UniqueRows(call.dataFrame, <<"size">>)
    /\ tr.key_cols = <<"name", "kind">>

\* C12 (as stated): the inferred key columns are unique across the rows and
\* no proper subset of them is.
C12_KeyColsMinimal ==
    (InferredKeys /\ err = None) =>
        /\ UniqueRows(tr.data_frame, tr.key_cols)
        /\ \A S \in SUBSET (1..Len(tr.key_cols)) :
               S # 1..Len(tr.key_cols) =>
                   ~UniqueRows(tr.data_frame,
                               SelectSeq2(tr.key_cols, IsIn, {tr.key_cols[i] : i \in S}))

\* C12 (amended): the inferred key columns are unique across the rows and no
\* proper prefix of them is; a proper subset that is not a prefix may be unique.
C12_KeyColsMinimalPrefix ==
    (InferredKeys /\ err = None) =>
        /\ UniqueRows(tr.data_frame, tr.key_cols)
        /\ \A k \in 0..(Len(tr.key_cols) - 1) :
               ~UniqueRows(tr.data_frame, SubSeq(tr.key_cols, 1, k))

\* C12 witness: two key columns were inferred and the second is unique alone
C12_Witness ==
    /\ InferredKeys
    /\ err = None
    /\ Len(tr.key_cols) = 2
    /\ UniqueRows(tr.data_frame, <<tr.key_cols[2]>>)
    /\ ~UniqueRows(tr.data_frame, <<tr.key_cols[1]>>)

(***************************************************************************)
(* Properties of panel inference.                                          *)
(***************************************************************************)
\* the columns of `columns` that have a Panel of one of `classes` in self
PanelsOfKind(self, columns, classes) ==
    {c \in Range(columns) : _has_panel(self, c) /\ IsInstance(_get_panel(self, c), classes)}

\* C13: when no Panel is registered and the dataset holds more than one
\* qualifying figure column (more than one qualifying image column),
\* infer_panels creates no FigurePanel (no ImagePanel) for any of them.
C13_AmbiguousColumnsGetNoPanel ==
    (call.name = "infer_panels" /\ err = None /\ Len(pre.panels) = 0) =>
        /\ Len(find_figure_columns(pre.data_frame)) > 1 =>
               PanelsOfKind(res, find_figure_columns(pre.data_frame), {"FigurePanel"}) = {}
        /\ Len(find_image_columns(pre.data_frame)) > 1 =>
               PanelsOfKind(res, find_image_columns(pre.data_frame), {"ImagePanel"}) = {}

\* C14: when at least one Panel is registered, infer_panels returns and adds
\* no Panel: the returned orchestrator's panel mapping has the keys and the
\* Panel attributes of the receiver's, whatever columns the dataset holds.
C14_RegisteredPanelStopsInference ==
    (call.name = "infer_panels" /\ Len(pre.panels) > 0) =>
        /\ err = None
        /\ res.panels = pre.panels
        /\ tr.panels = pre.panels

\* C14 witness: a Panel is registered, the dataset holds a figure or image
\* column without a Panel, and infer_panels returned
C14_Witness ==
    /\ call.name = "infer_panels"
    /\ err = None
    /\ Len(pre.panels) > 0
    /\ \E c \in Range(find_figure_columns(pre.data_frame))
                 \cup Range(find_image_columns(pre.data_frame)) :
           ~_has_panel(pre, c) /\ ~_has_panel(res, c)

\* C15: after infer_panels returns, whenever the returned orchestrator has at
\* least one Panel, its primary_panel is not None and names a registered Panel.
C15_PrimaryPanelIsRegistered ==
    (call.name = "infer_panels" /\ err = None /\ Len(res.panels) > 0) =>
        /\ res.primary_panel # None
        /\ _has_panel(res, res.primary_panel)

(***************************************************************************)
(* Properties of write_display and of meta inference.                      *)
(***************************************************************************)
\* no Panel is registered in self and its dataset has no figure or image column
NoPanelToFind(self) ==
    /\ Len(self.panels) = 0
    /\ find_figure_columns(self.data_frame) = <<>>
    /\ find_image_columns(self.data_frame) = <<>>

\* C16: write_display on an orchestrator with no registered Panel and a
\* dataset with no figure or image column raises ValueError; nothing is
\* returned, no Meta has been inferred and neither the display-info nor the
\* metadata file has been written.
C16_NoPanelsRaisesFirst ==
    (call.name = "write_display" /\ NoPanelToFind(pre)) =>
        /\ err = "ValueError"
        /\ res = NoneObj
        /\ log = <<>>
        /\ tr.metas = pre.metas

\* C16 witness: write_display was called on such an orchestrator whose
\* dataset has columns a Meta could be inferred for
C16_Witness ==
    /\ call.name = "write_display"
    /\ NoPanelToFind(pre)
    /\ metas_to_infer(pre) # {}
    /\ err = "ValueError"
    /\ log = <<>>

MetaInferenceNames == {"infer", "_infer_metas"}

FirstRule(self, c) ==
    LET column == Col(self.data_frame, c)
    IN  IF \E i \in 1..Len(self.panels) : self.panels[i].varname = c
        THEN "PanelMeta"
        ELSE IF \E i \in 1..Len(self.panels) : self.panels[i].figure_varname = c
        THEN None
        ELSE IF column.dtype = "category" THEN "FactorMeta"
        ELSE IF column.dtype = "number" THEN "NumberMeta"
        ELSE IF column.dtype = "object" /\ \A x \in Range(column.vals) : x.ty = "str"
        THEN IF \A x \in Range(column.vals) : x.dir = REMOTE
             THEN "HrefMeta" ELSE "StringMeta"
        ELSE None

\* C18: after a successful infer() or _infer_metas(), every column that had
\* no Meta carries the Meta of the first matching rule (panel column, shadow
\* figure column, categorical, numeric, string with href or plain, else
\* nothing), a PanelMeta carries the attributes of the registered Panel, and
\* every column that got no Meta is in columns_to_ignore.
C18_FirstMatchingRule ==
    (call.name \in MetaInferenceNames /\ err = None) =>
        \A c \in metas_to_infer(pre) :
            IF FirstRule(pre, c) = None
            THEN c \notin DOMAIN res.metas /\ c \in Range(res.columns_to_ignore)
            ELSE /\ c \in DOMAIN res.metas
                 /\ res.metas[c].cls = FirstRule(pre, c)
                 /\ res.metas[c].varname = c
                 /\ FirstRule(pre, c) = "PanelMeta" =>
                        res.metas[c].panel = PanelMeta(_get_panel(pre, c), None).panel

\* the classes of the Metas inference gave to the columns without a Meta
InferredClasses ==
    {FirstRule(pre, c) : c \in metas_to_infer(pre)}

\* C18 witness: inference succeeded where a registered panel column of str
\* values, which the later rules give a StringMeta or an HrefMeta, got a
\* PanelMeta
C18_Witness ==
    /\ call.name \in MetaInferenceNames
    /\ err = None
    /\ \E c \in metas_to_infer(pre) :
          FirstRule(pre, c) = "PanelMeta" /\ is_string_column(Col(pre.data_frame, c))

\* C18 witness of a column without a Meta: it is in columns_to_ignore
C18_WitnessIgnored ==
    call.name \in MetaInferenceNames /\ err = None /\ None \in InferredClasses

\* C18 witness of the other rules: the successful inferences together reach
\* each of FactorMeta, NumberMeta, HrefMeta and StringMeta
C18_WitnessFactor ==
    call.name \in MetaInferenceNames /\ err = None /\ "FactorMeta" \in InferredClasses

C18_WitnessHref ==
    call.name \in MetaInferenceNames /\ err = None /\ "HrefMeta" \in InferredClasses

(***************************************************************************)
(* Properties of the inference of the display state.                       *)
(***************************************************************************)
\* every entry of the sort or filter mapping has the type of the Meta of
\* self under its varname as metatype
MetatypesMatch(self, mapping) ==
    \A i \in 1..Len(mapping) :
        /\ mapping[i].varname \in DOMAIN self.metas
        /\ mapping[i].metatype = self.metas[mapping[i].varname].type

\* C19: after a successful infer() on an orchestrator without Views, every
\* SortState and every FilterState of the default display state has the type
\* of the Meta stored under its varname as metatype, a range filter whose
\* constructor preset another metatype included.
C19_MetatypesMatchMetas ==
    (call.name = "infer" /\ err = None /\ DOMAIN pre.views = {}) =>
        /\ MetatypesMatch(res, res.state.sort)
        /\ MetatypesMatch(res, res.state.filter)

\* C19 witness: infer() succeeded on a display state with a sort and with a
\* NumberRangeFilterState, preset to the number metatype, on a varname whose
\* Meta is not a NumberMeta
C19_Witness ==
    /\ call.name = "infer"
    /\ err = None
    /\ Len(res.state.sort) > 0
    /\ \E i \in 1..Len(pre.state.filter) :
          /\ pre.state.filter[i].cls = "NumberRangeFilterState"
          /\ pre.state.filter[i].metatype = TYPE_NUMBER
          /\ res.metas[pre.state.filter[i].varname].type # TYPE_NUMBER

\* the values of a filter as a set; a filter without values has none
ValueSet(filter) ==
    IF filter.values = NoneObj THEN {} ELSE Range(filter.values.items)

\* C20: after a successful infer(), a CategoryFilterState on a varname whose
\* Meta is a FactorMeta holds exactly those of its declared values that are
\* levels of the Meta, and a CategoryFilterState on a varname whose Meta is
\* not a FactorMeta holds the values it was declared with.
C20_FactorFilterValuesAreLevels ==
    (call.name = "infer" /\ err = None) =>
        /\ Len(res.state.filter) = Len(pre.state.filter)
        /\ \A i \in 1..Len(pre.state.filter) :
            LET declared == pre.state.filter[i]
                filter == res.state.filter[i]
                meta == res.metas[declared.varname]
            IN  /\ filter.varname = declared.varname
                /\ filter.cls = declared.cls
                /\ declared.cls = "CategoryFilterState" =>
                      IF meta.cls = "FactorMeta"
                      THEN ValueSet(filter) =
                             ValueSet(declared) \cap Range(meta.levels.items)
                      ELSE filter.values = declared.values

\* C20 witness: infer() succeeded on a CategoryFilterState over a FactorMeta
\* declared with one value that is a level and one that is not
C20_Witness ==
    /\ call.name = "infer"
    /\ err = None
    /\ \E i \in 1..Len(pre.state.filter) :
          /\ pre.state.filter[i].cls = "CategoryFilterState"
          /\ res.metas[pre.state.filter[i].varname].cls = "FactorMeta"
          /\ ValueSet(res.state.filter[i]) # {}
          /\ ValueSet(res.state.filter[i]) # ValueSet(pre.state.filter[i])

\* C20 witness of the other case: a CategoryFilterState with values on a
\* varname whose Meta is not a FactorMeta
C20_WitnessNotFactor ==
    /\ call.name = "infer"
    /\ err = None
    /\ \E i \in 1..Len(pre.state.filter) :
          /\ pre.state.filter[i].cls = "CategoryFilterState"
          /\ ValueSet(pre.state.filter[i]) # {}
          /\ res.metas[pre.state.filter[i].varname].cls # "FactorMeta"

\* C21: _infer_state leaves the DisplayState passed in as it was (layout,
\* labels, every sort and filter with its metatype and values), whether it
\* returns or raises, and the DisplayState it returns shares no State object
\* with the one passed in.
C21_InferStateLeavesInput ==
    call.name = "_infer_state" => (ds = dspre /\ ~same)

\* C21 witness: _infer_state returned a DisplayState that differs from the
\* one passed in by a metatype or by the values of a filter
C21_Witness ==
    /\ call.name = "_infer_state"
    /\ err = None
    /\ ds = dspre
    /\ Len(dspre.filter) > 0
    /\ res.filter # dspre.filter

\* C22: the DisplayState _infer_state returns has a grid layout with 3 columns
\* when the one passed in has no LayoutState and a LabelState over the key
\* columns of the orchestrator when it has no LabelState; a LayoutState or a
\* LabelState that is present comes back with the same values.
C22_InferStateFillsMissing ==
    (call.name = "_infer_state" /\ err = None) =>
        /\ IF dspre.layout = NoneObj
           THEN /\ res.layout.cls = "LayoutState"
                /\ res.layout.viewtype = "grid"
                /\ res.layout.ncol = 3
           ELSE res.layout = dspre.layout
        /\ IF dspre.labels = NoneObj
           THEN /\ res.labels.cls = "LabelState"
                /\ res.labels.varnames = pre.key_cols
           ELSE res.labels = dspre.labels

\* C22 witness: _infer_state returned for a DisplayState that had a
\* LayoutState other than the default and no LabelState
C22_Witness ==
    /\ call.name = "_infer_state"
    /\ err = None
    /\ dspre.layout # NoneObj
    /\ dspre.layout.ncol # 3
    /\ dspre.labels = NoneObj
    /\ res.labels # NoneObj

\* C22 witness of the other two cases: no LayoutState, and a LabelState that
\* is not the one over the key columns
C22_WitnessLabels ==
    /\ call.name = "_infer_state"
    /\ err = None
    /\ dspre.layout = NoneObj
    /\ dspre.labels # NoneObj
    /\ dspre.labels.varnames # pre.key_cols

(***************************************************************************)
(* Properties of the Meta classes.                                         *)
(***************************************************************************)
\* C23: check_with_data of a Meta of any class on a dataset without a column
\* named as the varname of the Meta raises ValueError.
C23_MissingColumnRaises ==
    (call.name = "check_with_data" /\ ~HasColumn(call.df, call.meta.varname)) =>
        err = "ValueError"

\* C23 restricted to the classes that keep Meta.check_varname
C23_MissingColumnRaisesButGeo ==
    (/\ call.name = "check_with_data"
     /\ call.meta.cls # "GeoMeta"
     /\ ~HasColumn(call.df, call.meta.varname)) =>
        err = "ValueError"

\* C24: the dictionary to_dict returns for a Meta of any class has a label
\* that is not None: the label given, or the varname when none was given.
C24_ToDictHasLabel ==
    call.name = "to_dict" =>
        /\ res.label # None
        /\ res.label = IF call.meta.label = None THEN call.meta.varname
                       ELSE call.meta.label

\* C24 restricted to the classes that keep or extend Meta.to_dict
C24_ToDictHasLabelButGeo ==
    (call.name = "to_dict" /\ call.meta.cls # "GeoMeta") =>
        /\ res.label # None
        /\ res.label = IF call.meta.label = None THEN call.meta.varname
                       ELSE call.meta.label

\* the argument of set_meta does not pass the validation against df: it is
\* no Meta, or df has no column of its varname, or its check_with_data raises
FailsValidation(meta, df) ==
    \/ ~IsInstance(meta, MetaClasses)
    \/ ~HasColumn(df, meta.varname)
    \/ check_with_data(meta, df).err # None

\* the returned orchestrator holds the Meta under its varname and every other
\* entry of the receiver's metas as it was
StoresMeta(before, after, meta) ==
    /\ DOMAIN after.metas = DOMAIN before.metas \cup {meta.varname}
    /\ after.metas[meta.varname].cls = meta.cls
    /\ after.metas[meta.varname].varname = meta.varname
    /\ after.metas[meta.varname].label = meta.label
    /\ \A k \in DOMAIN before.metas \ {meta.varname} : after.metas[k] = before.metas[k]

\* C25: set_meta raises and returns no orchestrator when its argument is not
\* a Meta, when the dataset has no column of the Meta's varname or when the
\* check of the Meta's class fails; otherwise it returns an orchestrator whose
\* metas hold that Meta under its varname and the other entries unchanged.
C25_SetMetaValidatesThenStores ==
    call.name = "set_meta" =>
        IF FailsValidation(call.meta, pre.data_frame)
        THEN err # None /\ res = NoneObj
        ELSE err = None /\ StoresMeta(pre, res, call.meta)

\* C25 for the arguments that are not a GeoMeta
C25_SetMetaValidatesThenStoresButGeo ==
    (call.name = "set_meta" /\ call.meta.cls # "GeoMeta") =>
        IF FailsValidation(call.meta, pre.data_frame)
        THEN err # None /\ res = NoneObj
        ELSE err = None /\ StoresMeta(pre, res, call.meta)

\* the Meta of meta_list that is the last one with varname k
LastMetaOf(meta_list, k) ==
    meta_list[CHOOSE i \in 1..Len(meta_list) :
                 /\ meta_list[i].varname = k
                 /\ \A j \in (i + 1)..Len(meta_list) : meta_list[j].varname # k]

\* C26: set_metas returns a copy of the orchestrator that holds every Meta of
\* the list under its varname, a later Meta of the list replacing an earlier
\* one of that varname, and leaves the receiver as it was.
C26_SetMetasStoresAll ==
    call.name = "set_metas" =>
        /\ err = None
        /\ ~same
        /\ tr = pre
        /\ \A i \in 1..Len(call.meta_list) :
              LET k == call.meta_list[i].varname
              IN  /\ k \in DOMAIN res.metas
                  /\ res.metas[k].cls = LastMetaOf(call.meta_list, k).cls
                  /\ res.metas[k].label = LastMetaOf(call.meta_list, k).label

(***************************************************************************)
(* Properties of Panel.create_panel.                                       *)
(***************************************************************************)
\* every value of the column is a str with one and the same image extension
HoldsImages(column) ==
    /\ \A x \in Range(column.vals) : x.ty = "str"
    /\ column.vals[1].ext \in valid_image_extensions
    /\ \A x \in Range(column.vals) : x.ext = column.vals[1].ext

\* every value of the column is a figure object
HoldsFigures(column) == \A x \in Range(column.vals) : x.ty = "fig"

\* the is_known flags of the call say nothing that the column contradicts
FlagsAgree(c) ==
    /\ c.is_known_figure_col => HoldsFigures(Col(c.df, c.panel_column))
    /\ c.is_known_image_col => HoldsImages(Col(c.df, c.panel_column))

\* what the claim states of a create_panel call c with result res and err
CreatePanelAsStated(c) ==
    LET column == Col(c.df, c.panel_column)
        is_local == ~(\A x \in Range(column.vals) : x.dir = REMOTE)
    IN  IF c.panel_options # NoneObj /\ ~c.panel_options.prerender
        THEN err = "NotImplementedError"
        ELSE IF HoldsImages(column)
        THEN /\ err = None
             /\ res.cls = "ImagePanel"
             /\ res.source.cls = "FilePanelSource"
             /\ res.source.is_local = is_local
             /\ res.should_copy = is_local
        ELSE IF HoldsFigures(column)
        THEN /\ err = None
             /\ res.cls = "FigurePanel"
             /\ res.is_writeable
             /\ res.source.cls = "FilePanelSource"
             /\ res.source.is_local
             /\ res.figure_varname = c.panel_column \o "__FIGURE"
        ELSE err = "ValueError"

\* C27: create_panel returns an ImagePanel with is_local = not all remote and
\* should_copy = is_local on a column of image references, a writable
\* FigurePanel with a local file source and figure_varname = varname +
\* "__FIGURE" on a column of figure objects, raises ValueError on any other
\* column, and raises NotImplementedError when the options disable prerender.
C27_CreatePanelByColumn ==
    (call.name = "create_panel" /\ FlagsAgree(call)) => CreatePanelAsStated(call)

\* C27 for the calls that name the kind of the column, or whose column starts
\* with a str
C27_CreatePanelKnownOrStr ==
    (/\ call.name = "create_panel"
     /\ FlagsAgree(call)
     /\ \/ call.is_known_figure_col
        \/ call.is_known_image_col
        \/ Col(call.df, call.panel_column).vals[1].ty = "str") =>
        CreatePanelAsStated(call)

(***************************************************************************)
(* Properties of write_display.                                            *)
(***************************************************************************)
\* the panel of self is a FigurePanel whose column holds output paths and
\* whose shadow column holds the figure objects the column held in `before`
FiguresShadowed(before, self, panel) ==
    /\ HasColumn(self.data_frame, panel.figure_varname)
    /\ Col(self.data_frame, panel.figure_varname).vals
          = Col(before.data_frame, panel.varname).vals
    /\ \A x \in Range(Col(self.data_frame, panel.figure_varname).vals) : x.ty = "fig"
    /\ \A x \in Range(Col(self.data_frame, panel.varname).vals) :
          x.ty = "str" /\ x.dir = _get_panel_output_path(panel.varname)

\* every panel column without a Meta in `before` has a PanelMeta in self, and
\* no shadow column of a panel of self has a Meta
PanelMetasInferred(before, self) ==
    /\ \A i \in 1..Len(self.panels) :
          LET c == self.panels[i].varname
          IN  c \notin DOMAIN before.metas =>
                 c \in DOMAIN self.metas /\ self.metas[c].cls = "PanelMeta"
    /\ \A i \in 1..Len(self.panels) :
          self.panels[i].figure_varname \notin DOMAIN self.metas

C28_PanelsWrittenByThisCall ==
    (call.name = "write_display" /\ err = None) =>
        /\ PanelMetasInferred(pre, res)
        /\ \A i \in 1..Len(res.panels) :
              (res.panels[i].cls = "FigurePanel" /\ res.panels[i].varname \in Range(log)) =>
                 FiguresShadowed(pre, res, res.panels[i])

\* C28 witness: write_display wrote a FigurePanel and returned
C28_Witness ==
    /\ call.name = "write_display"
    /\ err = None
    /\ \E i \in 1..Len(res.panels) :
          /\ res.panels[i].cls = "FigurePanel"
          /\ res.panels[i].varname \in Range(log)
          /\ res.panels[i].varname \notin DOMAIN pre.metas

(***************************************************************************)
(* Properties of the default display state.                                *)
(***************************************************************************)
\* the varnames the DisplayState uses: of its labels, its sorts and its filters
StateVarnames(state) ==
    (IF state.labels = NoneObj THEN {} ELSE Range(state.labels.varnames))
    \cup Range(Keys(state.sort))
    \cup Range(Keys(state.filter))

StateNamesColumns(self) ==
    StateVarnames(self.state) \subseteq Range(Columns(self.data_frame))

\* C29: in every orchestrator a caller reaches from the constructor through
\* the setters, every label, sort and filter varname of the default display
\* state is a column of the dataset.
C29_StateNamesColumns ==
    tr # NoneObj => StateNamesColumns(tr)

DefaultStateSetterNames ==
    {"set_default_labels", "set_default_layout", "set_default_sort",
     "set_default_filters"}

\* C29 for the four set_default setters: called on an orchestrator whose
\* display state names columns only, they return one of which this holds too
C29_DefaultSettersNameColumns ==
    (call.name \in DefaultStateSetterNames /\ err = None /\ StateNamesColumns(pre)) =>
        StateNamesColumns(res)

\* every filter of the state passes check_with_meta on the Meta of self for
\* its varname, and every sort does
StateFitsMetas(self, state) ==
    /\ \A i \in 1..Len(state.filter) :
          /\ state.filter[i].varname \in DOMAIN self.metas
          /\ FilterState_check_with_meta(state.filter[i],
                                         self.metas[state.filter[i].varname]) = None
    /\ \A i \in 1..Len(state.sort) :
          /\ state.sort[i].varname \in DOMAIN self.metas
          /\ SortState_check_with_meta(state.sort[i],
                                       self.metas[state.sort[i].varname]) = None

\* C30: infer() never returns a display state that does not fit the Metas:
\* when it returns, every filter of the default display state applies to the
\* type of the Meta of its varname and every sort names a sortable Meta (a
\* state that does not fit makes infer() raise instead).
C30_InferredStateFitsMetas ==
    (call.name = "infer" /\ err = None) => StateFitsMetas(res, res.state)

====
